---- MODULE Spec2Model ----
(***************************************************************************)
(* esm.sh: the build queue, the build job's write step, the artefact store *)
(* and the router's module-request path, as one state machine; the pure    *)
(* parts of the router (version redirect) and of the args codec are        *)
(* operators checked under their own specifications.                       *)
(***************************************************************************)
EXTENDS Integers, Sequences, FiniteSets, TLC

\* ------------------------------------------------------------------ bounds
NumReqs == 2        \* concurrent HTTP connections
MaxTasks == 3       \* task slots of the queue
MaxEvents == 1      \* environment events: build errors, failed writes, timeouts, purges
MaxReg == 2         \* versions the registry may resolve a dependency range to
MaxJobs == 3        \* build jobs of one package version

\* build-concurrency flag, run here with one worker slot
buildConcurrency == 1

Ids == {"x", "y"}                   \* build identities (BuildContext.Path())
ReqIds == {"x"}                     \* the identity clients ask for; y is built as its dependency
Reqs == 1..NumReqs
Slots == 1..MaxTasks
importsOf(x) == IF x = "x" THEN "y" ELSE "x"   \* the two packages import each other

NoTask == [id |-> "", stage |-> "none", inProcess |-> FALSE, clients |-> {},
           orphans |-> 0, bytes |-> 0, output |-> "empty"]
NoReq == [pc |-> "idle", id |-> "", kind |-> "", hasBuild |-> FALSE]
NoResp == [status |-> "none", from |-> ""]

VARIABLES
    zone,        \* one package request with its X-Zone-Id header on the way through the router: the checks it reached and the response
    statusJson,      \* the /status.json handler: the length it sized its result with, and the tasks it listed
    ext,         \* the external imports of one build: externalDeps, the specifier of every marker the plugin emitted, and the output content as a sequence of byte runs
    plugin,      \* one import seen by the resolve plugin of a build, and what the plugin returns for it
    cjs,         \* the require() occurrences of one external specifier and the statements prepended for it
    loop,        \* the rebuild loop of one build: what it has marked, the rebuilds by cause, how it ended
    workdir,     \* the working directory of a package version, its purge timer and the jobs that use it
    queue,       \* buildQueue.queue: task slots in FIFO order
    tasks,       \* buildQueue.tasks: identity -> task slot (0: none)
    task,        \* the QueueTask objects
    processing,  \* buildQueue.processing
    sink,        \* QueueClient.C of the request that waits
    db,          \* metadata records of the key-value store
    fsFiles,     \* artefact files under builds/: "none", "file", or "stale" (a file
                 \* that was there when a purge of its prefix returned)
    removing,    \* files a `go fs.Remove` has still to remove
    req,         \* the router invocations
    resp,        \* the response a handler has just returned
    events,      \* environment events so far
    lastOk,      \* history: bytes the last successful build wrote under each path
    route,       \* one pass of a module request through the router's canonicalization
    codec,       \* one pass of build args through the args codec
    serve,       \* one pass of a module request through the whole router
    build,       \* a build task and the external import it rewrites
    emit,        \* one output file of the bundler on its way to the artefact
    xform        \* the modules of the build API: files, writes in flight, last answer

vars == <<zone, statusJson, ext, plugin, cjs, loop, workdir, queue, tasks, task, processing, sink, db, fsFiles, removing,
          req, resp, events, lastOk, route, codec, serve, build, emit, xform>>

\* the queue, the store and the requests in flight
queueVars == <<queue, tasks, task, processing, sink, db, fsFiles, removing,
               req, resp, events, lastOk>>

\* the variables of the passes through the pure parts
pureVars == <<zone, statusJson, ext, plugin, cjs, loop, workdir, route, codec, serve, build, emit, xform>>

Init ==
    /\ zone = [pc |-> "idle", header |-> "", zoneId |-> "", name |-> "", validPath |-> FALSE, token |-> "", reached |-> {}, resp |-> ""]
    /\ statusJson = [pc |-> "idle", size |-> 0, q |-> <<>>]
    /\ ext = [pc |-> "resolve", externalDeps |-> <<>>, markers |-> <<>>, outputContent |-> <<>>]
    /\ plugin = [pc |-> "idle", task |-> [Bundle |-> FALSE, PeerDependencies |-> {}, external |-> {}], implicitExternal |-> {}, specifier |-> "", result |-> ""]
    /\ cjs = [pc |-> "idle", dep |-> "", occs |-> {}, statements |-> <<>>]
    /\ loop = [pc |-> "idle", implicitExternal |-> {}, browserExclude |-> {}, rebuilds |-> <<>>, err |-> ""]
    /\ workdir = [dir |-> FALSE, timer |-> FALSE, job |-> [j \in 1..MaxJobs |-> "idle"]]
    /\ queue = <<>>
    /\ tasks = [x \in Ids |-> 0]
    /\ task = [t \in Slots |-> NoTask]
    /\ processing = 0
    /\ sink = [r \in Reqs |-> "empty"]
    /\ db = [x \in Ids |-> FALSE]
    /\ fsFiles = [x \in Ids |-> "none"]
    /\ removing = {}
    /\ req = [r \in Reqs |-> NoReq]
    /\ resp = NoResp
    /\ events = 0
    /\ lastOk = [x \in Ids |-> 0]
    /\ route = [pc |-> "idle"]
    /\ codec = [pc |-> "idle"]
    /\ serve = [pc |-> "idle", sq |-> "", env |-> "", rs |-> ""]
    /\ build = [pc |-> "idle", origin |-> "", name |-> "", import |-> "", task |-> ""]
    /\ emit = [pc |-> "idle", outputContent |-> <<>>, written |-> <<>>]
    /\ xform = [files |-> {}, writing |-> {}, posted |-> {}, post |-> "none",
                rs |-> [status |-> "none", cache |-> "", vary |-> "",
                        path |-> [hash |-> <<>>, target |-> ""], posted |-> FALSE]]

\* ------------------------------------------------------------ build queue
QueueState == [queue |-> queue, tasks |-> tasks, task |-> task, sink |-> sink]

FreeSlots(q) == {t \in Slots : q.task[t].stage = "none"}

CanAdd(q, x) == q.tasks[x] # 0 \/ FreeSlots(q) # {}

\* a task that is in the index takes the waiter (a done task hands it the stored
\* output); otherwise a new task is enqueued. h = 0: a sink nobody reads
AddTo(q, x, h) ==
    IF q.tasks[x] # 0
    THEN LET t == q.tasks[x] IN
         [q EXCEPT !.task[t].clients = IF h \in Reqs THEN @ \cup {h} ELSE @,
                   !.task[t].orphans = IF h \in Reqs THEN @ ELSE @ + 1,
                   !.sink = IF h \in Reqs /\ q.task[t].stage = "done"
                            THEN [q.sink EXCEPT ![h] = q.task[t].output]
                            ELSE q.sink]
    ELSE LET t == CHOOSE s \in FreeSlots(q) : \A u \in FreeSlots(q) : s <= u IN
         [q EXCEPT !.task[t] = [NoTask EXCEPT !.id = x, !.stage = "pending",
                                              !.clients = IF h \in Reqs THEN {h} ELSE {},
                                              !.orphans = IF h \in Reqs THEN 0 ELSE 1],
                   !.queue = Append(q.queue, t),
                   !.tasks[x] = t]

\* the task, if any, that holds the sink of request h for identity x
TaskOf(q, x, h) ==
    IF q.tasks[x] # 0 /\ h \in q.task[q.tasks[x]].clients THEN q.tasks[x] ELSE 0

\* remove-consumer: the waiter count drops, the task stays
RemoveConsumerFrom(q, x, h) ==
    IF TaskOf(q, x, h) # 0
    THEN [q EXCEPT !.task[q.tasks[x]].clients = @ \ {h}]
    ELSE q

\* the reader went away without detaching: its sink stays attached, unread
Abandon(q, x, h) ==
    IF TaskOf(q, x, h) # 0 /\ q.task[q.tasks[x]].stage = "done"
    THEN RemoveConsumerFrom(q, x, h)
    ELSE IF TaskOf(q, x, h) # 0
    THEN [q EXCEPT !.task[q.tasks[x]].clients = @ \ {h},
                   !.task[q.tasks[x]].orphans = @ + 1]
    ELSE q

Waiters(t) == Cardinality(task[t].clients) + task[t].orphans

Pending(t) == task[t].stage = "pending"

NextTask(t) ==
    /\ t \in Slots
    /\ \E i \in 1..Len(queue) :
         /\ queue[i] = t
         /\ Pending(t)
         /\ \A j \in 1..(i - 1) : ~Pending(queue[j])

\* fault: the queue is constructed with one worker slot more than the flag says
queueConcurrencyOff == buildConcurrency + 1

\* buildQueue = newBuildQueue(buildConcurrency)
queueConcurrency == buildConcurrency

\* next(): the oldest pending task takes a free worker slot
StartNext(t) ==
    /\ processing < queueConcurrency
    /\ NextTask(t)
    /\ task' = [task EXCEPT ![t].stage = "build", ![t].inProcess = TRUE]
    /\ processing' = processing + 1
    /\ resp' = NoResp
    /\ UNCHANGED pureVars
    /\ UNCHANGED <<queue, tasks, sink, db, fsFiles, removing, req, events, lastOk>>

\* -------------------------------------------------------------- build job
InStage(t, st) == t \in Slots /\ task[t].stage = st

\* the output goes to the sink of every client of the task
Deliver(snk, t, output) == [r \in Reqs |-> IF r \in task[t].clients THEN output ELSE snk[r]]

\* Build() returned: the output is delivered, the worker slot is freed
Finished(tk, t, output) ==
    [tk EXCEPT ![t].stage = "done", ![t].inProcess = FALSE, ![t].output = output,
               ![t].orphans = 0, ![t].bytes = 0]

\* install or bundling fails: Build() returns the error, nothing was written
BuildError(t) ==
    /\ InStage(t, "build")
    /\ events < MaxEvents
    /\ events' = events + 1
    /\ task' = Finished(task, t, "err")
    /\ processing' = processing - 1
    /\ sink' = Deliver(sink, t, "err")
    /\ resp' = NoResp
    /\ UNCHANGED pureVars
    /\ UNCHANGED <<queue, tasks, db, fsFiles, removing, req, lastOk>>

\* fault: the dependency's build is enqueued as a task of its own, whatever the
\* index holds
AddDependencyUnindexed(q, dep) ==
    IF db[dep] \/ FreeSlots(q) = {} THEN q
    ELSE LET t == CHOOSE s \in FreeSlots(q) : \A u \in FreeSlots(q) : s <= u IN
         [q EXCEPT !.task[t] = [NoTask EXCEPT !.id = dep, !.stage = "pending", !.orphans = 1],
                   !.queue = Append(q.queue, t),
                   !.tasks[dep] = t]

\* the build of a common npm dependency is added to the queue when no record
\* of it exists, and its result is not read
AddDependency(q, dep) == IF db[dep] THEN q ELSE AddTo(q, dep, 0)

\* fault: the build reads the output of the dependency's task before it goes on
WaitsForDependencyOutput(dep) == ~db[dep]

\* buildQueue.Add(t, "") is called for its effect: what it returns is dropped,
\* and the next statement takes the import path from the identity alone
WaitsForDependency(dep) == FALSE

\* the bundle is made: getPackageInfo resolves the version range of the dependency
\* to what the registry holds by now (ver), and the import URL with that version
\* is part of the bytes; then fs.WriteFile of the js under the identity's save path
BuildWrite(t, ver) ==
    /\ InStage(t, "build")
    /\ ver \in 1..MaxReg
    /\ LET dep == importsOf(task[t].id)
           q == AddDependency(QueueState, dep)
       IN  /\ db[dep] \/ CanAdd(QueueState, dep)
           /\ ~WaitsForDependency(dep)
           /\ queue' = q.queue
           /\ tasks' = q.tasks
           /\ sink' = q.sink
           /\ task' = [q.task EXCEPT ![t].stage = "written", ![t].bytes = ver]
    /\ fsFiles' = [fsFiles EXCEPT ![task[t].id] = "file"]
    /\ resp' = NoResp
    /\ UNCHANGED pureVars
    /\ UNCHANGED <<processing, db, removing, req, events, lastOk>>

\* fault: the metadata record is put although a write of the build failed
BuildWriteFailStores(t) ==
    /\ InStage(t, "written")
    /\ events < MaxEvents
    /\ events' = events + 1
    /\ db' = [db EXCEPT ![task[t].id] = TRUE]
    /\ task' = Finished(task, t, "err")
    /\ processing' = processing - 1
    /\ sink' = Deliver(sink, t, "err")
    /\ resp' = NoResp
    /\ UNCHANGED pureVars
    /\ UNCHANGED <<queue, tasks, fsFiles, removing, req, lastOk>>

\* the write of the css or map file fails after the js file was written
BuildWriteFail(t) ==
    /\ InStage(t, "written")
    /\ events < MaxEvents
    /\ events' = events + 1
    /\ task' = Finished(task, t, "err")
    /\ processing' = processing - 1
    /\ sink' = Deliver(sink, t, "err")
    /\ resp' = NoResp
    /\ UNCHANGED pureVars
    /\ UNCHANGED <<queue, tasks, db, fsFiles, removing, req, lastOk>>

\* storeToDB: a failed db.Put is logged only; Build() returns the result
StoreToDB(t, putOk) ==
    /\ InStage(t, "written")
    /\ putOk \/ events < MaxEvents
    /\ events' = IF putOk THEN events ELSE events + 1
    /\ db' = IF putOk THEN [db EXCEPT ![task[t].id] = TRUE] ELSE db
    /\ lastOk' = [lastOk EXCEPT ![task[t].id] = task[t].bytes]
    /\ task' = Finished(task, t, "ok")
    /\ processing' = processing - 1
    /\ sink' = Deliver(sink, t, "ok")
    /\ resp' = NoResp
    /\ UNCHANGED pureVars
    /\ UNCHANGED <<queue, tasks, fsFiles, removing, req>>

RemoveAt(s, v) == SelectSeq(s, LAMBDA e : e # v)

\* the grace period of a done task is over: it leaves the index
Expire(t) ==
    /\ InStage(t, "done")
    /\ queue' = RemoveAt(queue, t)
    /\ tasks' = [x \in Ids |-> IF tasks[x] = t THEN 0 ELSE tasks[x]]
    /\ task' = [task EXCEPT ![t] = NoTask]
    /\ resp' = NoResp
    /\ UNCHANGED pureVars
    /\ UNCHANGED <<processing, sink, db, fsFiles, removing, req, events, lastOk>>

\* ------------------------------------------------------- artefact store
\* buildCtx.Query(): the metadata record of the identity, if one is stored
Query(x) == db[x]

FileExists(x) == fsFiles[x] # "none"

\* POST /purge: the records under the prefix are deleted before the handler
\* returns; each record's files are removed by a goroutine of their own
Purge(x) ==
    /\ events < MaxEvents
    /\ events' = events + 1
    /\ db' = [db EXCEPT ![x] = FALSE]
    /\ removing' = IF db[x] THEN removing \cup {x} ELSE removing
    /\ fsFiles' = [fsFiles EXCEPT ![x] = IF FileExists(x) THEN "stale" ELSE @]
    /\ resp' = NoResp
    /\ UNCHANGED pureVars
    /\ UNCHANGED <<queue, tasks, task, processing, sink, req, lastOk>>

\* go fs.Remove(savePath)
FsRemove(x) ==
    /\ x \in removing
    /\ removing' = removing \ {x}
    /\ fsFiles' = [fsFiles EXCEPT ![x] = "none"]
    /\ resp' = NoResp
    /\ UNCHANGED pureVars
    /\ UNCHANGED <<queue, tasks, task, processing, sink, db, req, events, lastOk>>

\* ------------------------------------------------------------------ router

\* fault: the probe's answer is not looked at
ShouldAddAlways(hasBuild) == TRUE

\* the build is queued only when the probe found no record
ShouldAdd(hasBuild) == ~hasBuild

\* the js file of a build-file request is read from the store, or 404 "File not found"
ServeFile(x) ==
    [status |-> IF FileExists(x) THEN "200" ELSE "404",
     from |-> IF FileExists(x) THEN fsFiles[x] ELSE ""]

\* the response once the build result (stored or just built) is at hand
Respond(x, kind, from) ==
    IF kind = "build" THEN ServeFile(x) ELSE [status |-> "200", from |-> from]

\* a GET arrives: a build file that is in the store is streamed at once;
\* otherwise the metadata record is probed
ReqStart(r, x, kind) ==
    /\ req[r].pc = "idle"
    /\ \A i \in Reqs : i < r => req[i].pc # "idle"    \* connections are anonymous
    /\ IF kind = "build" /\ FileExists(x)
       THEN /\ resp' = ServeFile(x)
            /\ req' = req
       ELSE IF ShouldAdd(Query(x))
            THEN /\ req' = [req EXCEPT ![r] = [pc |-> "miss", id |-> x, kind |-> kind,
                                               hasBuild |-> Query(x)]]
                 /\ resp' = NoResp
            ELSE /\ resp' = Respond(x, kind, "record")
                 /\ req' = req
    /\ UNCHANGED pureVars
    /\ UNCHANGED <<queue, tasks, task, processing, sink, db, fsFiles, removing,
                   events, lastOk>>

\* c := buildQueue.Add(buildCtx, ctx.RemoteIP())
ReqAdd(r) ==
    /\ req[r].pc = "miss"
    /\ CanAdd(QueueState, req[r].id)
    /\ LET q == AddTo(QueueState, req[r].id, r) IN
       /\ queue' = q.queue
       /\ tasks' = q.tasks
       /\ task' = q.task
       /\ sink' = q.sink
    /\ req' = [req EXCEPT ![r].pc = "wait"]
    /\ resp' = NoResp
    /\ UNCHANGED pureVars
    /\ UNCHANGED <<processing, db, fsFiles, removing, events, lastOk>>

\* case output := <-c.C
ReqReceive(r) ==
    /\ req[r].pc = "wait"
    /\ sink[r] # "empty"
    /\ sink' = [sink EXCEPT ![r] = "empty"]
    /\ task' = RemoveConsumerFrom(QueueState, req[r].id, r).task
    /\ resp' = IF sink[r] = "ok"
               THEN Respond(req[r].id, req[r].kind, "build")
               ELSE [status |-> "500", from |-> ""]
    /\ req' = [req EXCEPT ![r] = NoReq]
    /\ UNCHANGED pureVars
    /\ UNCHANGED <<queue, tasks, processing, db, fsFiles, removing, events, lastOk>>

\* router.go: the timeout case answers 408 and returns, the sink stays attached
RouterTimeout(q, x, h) == Abandon(q, x, h)

\* fault: the timeout case drops a pending task that is left without waiters
EsmHandlerTimeoutCancels(q, x, h) ==
    LET d == RemoveConsumerFrom(q, x, h)
        t == TaskOf(q, x, h)
    IN  IF t # 0 /\ d.task[t].stage = "pending"
           /\ d.task[t].clients = {} /\ d.task[t].orphans = 0
        THEN [d EXCEPT !.task[t] = NoTask,
                       !.queue = SelectSeq(q.queue, LAMBDA e : e # t),
                       !.tasks[x] = 0]
        ELSE d

\* esm_handler.go: the timeout case calls buildQueue.RemoveConsumer(task, c)
EsmHandlerTimeout(q, x, h) == RemoveConsumerFrom(q, x, h)

\* case <-time.After(buildTimeout), in the router or in the older esmHandler
ReqTimeout(r, via) ==
    /\ req[r].pc = "wait"
    /\ events < MaxEvents
    /\ events' = events + 1
    /\ LET q == IF via = "router"
                THEN RouterTimeout(QueueState, req[r].id, r)
                ELSE EsmHandlerTimeout(QueueState, req[r].id, r) IN
       /\ queue' = q.queue
       /\ tasks' = q.tasks
       /\ task' = q.task
       /\ sink' = [sink EXCEPT ![r] = "empty"]
    /\ req' = [req EXCEPT ![r] = NoReq]
    /\ resp' = [status |-> "408", from |-> via]
    /\ UNCHANGED pureVars
    /\ UNCHANGED <<processing, db, fsFiles, removing, lastOk>>

\* ------------------------------------------ router: version redirect
cdnOrigin == "https://esm.sh"

ccMustRevalidate == "public, max-age=0, must-revalidate"
cc10min == "public, max-age=600"
ccImmutable == "public, max-age=31536000, immutable"

Names == {"react", "@types/react", "@jsr/std__fmt", "normalize.css", "evil", "ije/gox"}
VerSpecs == {"", "18", "^18.2.0", "18.3.1"}     \* none, partial, caret range, pinned
SubPaths == {"", "server", "index.d.ts"}
Queries == {<<>>} \cup {<<p>> : p \in {"dev", "raw", "dev/jsx-runtime"}}

\* a GET as the router sees it once the leading `*` is off the pathname; the
\* extra query is the `&dev` of /react@18&dev/server
Requests ==
    [ea : BOOLEAN, name : Names, ver : VerSpecs, subPath : SubPaths,
     extraQuery : {"", "dev"}, query : Queries, target : BOOLEAN]

\* what the registry (or the code host) resolves a version spec to
ResolveVersion(ver) == IF ver = "18.3.1" THEN ver ELSE "18.3.1"

\* the name as it stands in a request path
PathName(name) == IF name = "@jsr/std__fmt" THEN "jsr/@std/fmt" ELSE name

\* sub-path minus the known js/ts extensions
SubModuleOf(subPath) ==
    IF subPath = "index.d.ts" THEN "index"
    ELSE IF subPath = "lib/react.js" THEN "lib/react"
    ELSE subPath

\* validatePkgPath: the package of the path with its version resolved, the extra
\* query of the path, whether the version was a caret range, whether the path
\* has a target segment
validatePkgPath(rq) ==
    [pkg |-> [Name |-> rq.name,
              Version |-> ResolveVersion(rq.ver),
              SubPath |-> rq.subPath,
              SubModule |-> SubModuleOf(rq.subPath),
              FromGithub |-> rq.name = "ije/gox"],
     extraQuery |-> rq.extraQuery,
     caretVersion |-> rq.ver = "^18.2.0",
     isTargetUrl |-> rq.target]

\* strings.Join(qs, "&")
RECURSIVE JoinQuery(_)
JoinQuery(qs) ==
    IF qs = <<>> THEN ""
    ELSE IF Len(qs) = 1 THEN qs[1]
    ELSE qs[1] \o "&" \o JoinQuery(Tail(qs))

\* apply the extra query to the url
ApplyExtraQuery(extraQuery, query) ==
    IF extraQuery # "" THEN <<extraQuery>> \o query ELSE query

BanList == {"evil"}
AllowList == Names               \* the allow list names every package but "private"

\* fault: the allow list is not looked at
ForbiddenBanOnly(name) == name \in BanList

\* !pkgAllowed || pkgBanned
Forbidden(name) == name \notin AllowList \/ name \in BanList
cssPackages(name) == IF name = "normalize.css" THEN "normalize.css" ELSE ""
PkgString(pkg) == pkg.Name \o "@" \o pkg.Version

\* strings.HasSuffix(ctx.R.URL.RawQuery, "/jsx-runtime")
HasJsxRuntimeSuffix(query) == query # <<>> /\ query[Len(query)] = "dev/jsx-runtime"

\* strings.TrimSuffix(ctx.R.URL.RawQuery, "/jsx-runtime")
TrimJsxRuntime(query) == [query EXCEPT ![Len(query)] = "dev"]

\* the jsx transformer pattern: the sub-module of the package is set from the
\* query's suffix, the pathname is rebuilt from name and sub-module, the suffix
\* is cut off the query; pkg.SubPath is left as it was
JsxRuntimePattern(st) ==
    IF HasJsxRuntimeSuffix(st.query)
    THEN [st EXCEPT !.pkg.SubModule = IF @ = "" THEN "jsx-runtime" ELSE @ \o "/jsx-runtime",
                    !.pathVer = "",
                    !.pathSub = IF st.pkg.SubModule = "" THEN "jsx-runtime"
                                ELSE st.pkg.SubModule \o "/jsx-runtime",
                    !.query = TrimJsxRuntime(st.query)]
    ELSE st

\* check the response type: raw by the query; types when the sub-path has the
\* extension .ts and the pathname ends with .d.ts; bare otherwise (the sub-paths
\* here have no other extension)
ResTypeOf(st) ==
    IF \E i \in 1..Len(st.query) : st.query[i] = "raw" THEN "raw"
    ELSE IF st.pkg.SubPath = "index.d.ts" /\ st.pathSub = "index.d.ts" THEN "types"
    ELSE "bare"

\* the package's name with its version
FullName(pkg) == (IF pkg.FromGithub THEN "gh/" ELSE "") \o PkgString(pkg)

\* strings.Contains(pathname, pkg.FullName()): the pathname names the package
\* with the version the package resolved to
PathHasFullName(st) == st.pathVer = st.pkg.Version

SkipRedirect(caretVersion, resType, pkg) ==
    caretVersion /\ resType = "bare" /\ ~pkg.FromGithub

NoLocation == [status |-> "next", location |-> "", cache |-> "", via |-> ""]

Redirect(url, cache, via) == [status |-> "302", location |-> url, cache |-> cache, via |-> via]

\* redirect to the url with full package version
VersionRedirect(st, ea) ==
    LET pkgName == IF st.pkg.Name = "@jsr/std__fmt" THEN "jsr/@std/fmt" ELSE st.pkg.Name
        ghPrefix == IF st.pkg.FromGithub THEN "/gh" ELSE ""
        eaSign == IF ea THEN "*" ELSE ""
        subPath == IF st.pkg.SubPath # "" THEN "/" \o st.pkg.SubPath ELSE ""
        rawQuery == JoinQuery(st.query)
        head == cdnOrigin \o ghPrefix \o "/" \o eaSign \o pkgName \o "@" \o st.pkg.Version
    IN  IF rawQuery # "" /\ st.extraQuery # ""
        THEN Redirect(head \o "&" \o rawQuery \o subPath, cc10min, "version")
        ELSE Redirect(head \o subPath \o (IF rawQuery # "" THEN "?" \o rawQuery ELSE ""),
                      cc10min, "version")

TargetRedirect(st) ==
    LET subPath == IF st.pkg.SubPath # "" THEN "/" \o st.pkg.SubPath ELSE ""
        query == IF st.query # <<>> THEN "?" \o JoinQuery(st.query) ELSE ""
    IN  Redirect(cdnOrigin \o "/" \o FullName(st.pkg) \o subPath \o query, cc10min, "target")

\* the request after validatePkgPath, the extra query and the jsx pattern
RouteState(rq) ==
    LET v == validatePkgPath(rq)
    IN  JsxRuntimePattern([pkg |-> v.pkg, extraQuery |-> v.extraQuery,
                           pathVer |-> rq.ver, pathSub |-> rq.subPath,
                           query |-> ApplyExtraQuery(v.extraQuery, rq.query)])

\* the module-request path of the router from validatePkgPath to the version redirect
Canonicalize(rq) ==
    LET v == validatePkgPath(rq)
        st == RouteState(rq)
        resType == ResTypeOf(st)
    IN  IF Forbidden(v.pkg.Name)
        THEN [NoLocation EXCEPT !.status = "403", !.via = "policy"]
        ELSE IF v.pkg.Name = "@types/react" /\ v.pkg.SubModule = ""
        THEN Redirect(cdnOrigin \o "/" \o "index.d.ts", "", "types")
        ELSE IF cssPackages(v.pkg.Name) # "" /\ v.pkg.SubModule = ""
        THEN Redirect(cdnOrigin \o "/" \o PkgString(v.pkg) \o "/" \o cssPackages(v.pkg.Name),
                      "", "css")
        ELSE IF PathHasFullName(st)
        THEN NoLocation
        ELSE IF v.isTargetUrl
        THEN TargetRedirect(st)
        ELSE IF SkipRedirect(v.caretVersion, resType, st.pkg)
        THEN NoLocation
        ELSE VersionRedirect(st, rq.ea)

\* a module request arrives at the router
RouteStart(rq) ==
    /\ route.pc = "idle"
    /\ route' = [pc |-> "in", rq |-> rq]
    /\ UNCHANGED <<queueVars, zone, statusJson, ext, plugin, cjs, loop, workdir, codec, serve, build, emit, xform>>

\* the router answers it, or goes on to the build path
RouteAnswer ==
    /\ route.pc = "in"
    /\ route' = [pc |-> "out", rq |-> route.rq, rs |-> Canonicalize(route.rq)]
    /\ UNCHANGED <<queueVars, zone, statusJson, ext, plugin, cjs, loop, workdir, codec, serve, build, emit, xform>>

\* ------------------------------------------------------------ args codec
MaxDeps == 2        \* entries of a deps list

\* names and versions are texts: sequences of characters
Text(s) ==
    CASE s = "a" -> <<"a">>
      [] s = "b" -> <<"b">>
      [] s = "c" -> <<"c">>
      [] s = "d" -> <<"d">>
      [] s = "foo" -> <<"f", "o", "o">>
      [] s = "bar" -> <<"b", "a", "r">>
      [] s = "baz" -> <<"b", "a", "z">>
      [] s = "@s/x" -> <<"@", "s", "/", "x">>
      [] s = "react" -> <<"r", "e", "a", "c", "t">>
      [] s = "react-server" -> <<"r", "e", "a", "c", "t", "-", "s", "e", "r", "v", "e", "r">>
      [] s = "1.0.0" -> <<"1", ".", "0", ".", "0">>
      [] s = "18.2.0" -> <<"1", "8", ".", "2", ".", "0">>

Alphabet ==
    {"\n", ",", "-", ".", "/", "0", "1", "2", "8", ":", "@",
     "a", "b", "c", "d", "e", "f", "i", "k", "o", "r", "s", "t", "v", "x", "z"}

\* []byte(s): the ASCII code of a character
Byte(c) ==
    CASE c = "\n" -> 10 [] c = "," -> 44 [] c = "-" -> 45 [] c = "." -> 46
      [] c = "/" -> 47 [] c = "0" -> 48 [] c = "1" -> 49 [] c = "2" -> 50
      [] c = "8" -> 56 [] c = ":" -> 58 [] c = "@" -> 64 [] c = "a" -> 97
      [] c = "b" -> 98 [] c = "c" -> 99 [] c = "d" -> 100 [] c = "e" -> 101
      [] c = "f" -> 102 [] c = "i" -> 105 [] c = "k" -> 107 [] c = "o" -> 111
      [] c = "r" -> 114 [] c = "s" -> 115 [] c = "t" -> 116 [] c = "v" -> 118
      [] c = "x" -> 120 [] c = "z" -> 122

\* string(data): the character of a byte ("?": a byte outside the alphabet)
CharOf(b) == IF \E c \in Alphabet : Byte(c) = b
             THEN CHOOSE c \in Alphabet : Byte(c) = b
             ELSE "?"

Bytes(txt) == [i \in 1..Len(txt) |-> Byte(txt[i])]
Chars(bs) == [i \in 1..Len(bs) |-> CharOf(bs[i])]

\* fault: base64.URLEncoding, which pads the last group with '=' (symbol 64)
RECURSIVE btoaPadded(_)
btoaPadded(bs) ==
    IF Len(bs) = 0 THEN <<>>
    ELSE IF Len(bs) = 1
    THEN <<bs[1] \div 4, (bs[1] % 4) * 16, 64, 64>>
    ELSE IF Len(bs) = 2
    THEN <<bs[1] \div 4, (bs[1] % 4) * 16 + (bs[2] \div 16), (bs[2] % 16) * 4, 64>>
    ELSE <<bs[1] \div 4, (bs[1] % 4) * 16 + (bs[2] \div 16),
           (bs[2] % 16) * 4 + (bs[3] \div 64), bs[3] % 64>>
         \o btoaPadded(SubSeq(bs, 4, Len(bs)))

\* btoaUrl: base64.RawURLEncoding.EncodeToString; a symbol is the index of its
\* letter in the URL alphabet
RECURSIVE btoaUrl(_)
btoaUrl(bs) ==
    IF Len(bs) = 0 THEN <<>>
    ELSE IF Len(bs) = 1
    THEN <<bs[1] \div 4, (bs[1] % 4) * 16>>
    ELSE IF Len(bs) = 2
    THEN <<bs[1] \div 4, (bs[1] % 4) * 16 + (bs[2] \div 16), (bs[2] % 16) * 4>>
    ELSE <<bs[1] \div 4, (bs[1] % 4) * 16 + (bs[2] \div 16),
           (bs[2] % 16) * 4 + (bs[3] \div 64), bs[3] % 64>>
         \o btoaUrl(SubSeq(bs, 4, Len(bs)))

RECURSIVE DecodeGroups(_)
DecodeGroups(ss) ==
    IF Len(ss) < 2 THEN <<>>
    ELSE IF Len(ss) = 2
    THEN <<ss[1] * 4 + (ss[2] \div 16)>>
    ELSE IF Len(ss) = 3
    THEN <<ss[1] * 4 + (ss[2] \div 16), (ss[2] % 16) * 16 + (ss[3] \div 4)>>
    ELSE <<ss[1] * 4 + (ss[2] \div 16), (ss[2] % 16) * 16 + (ss[3] \div 4),
           (ss[3] % 4) * 64 + ss[4]>>
         \o DecodeGroups(SubSeq(ss, 5, Len(ss)))

\* atobUrl: base64.RawURLEncoding.DecodeString; a symbol outside the alphabet
\* (the padding sign too) or a lone last symbol is an error
atobUrl(ss) ==
    IF (\E i \in 1..Len(ss) : ss[i] \notin 0..63) \/ Len(ss) % 4 = 1
    THEN [err |-> TRUE, data |-> <<>>]
    ELSE [err |-> FALSE, data |-> DecodeGroups(ss)]

\* sort.Strings: the order of texts by their bytes
RECURSIVE TextLess(_, _)
TextLess(s, t) ==
    IF s = <<>> THEN t # <<>>
    ELSE IF t = <<>> THEN FALSE
    ELSE IF Byte(s[1]) # Byte(t[1]) THEN Byte(s[1]) < Byte(t[1])
    ELSE TextLess(Tail(s), Tail(t))

RECURSIVE Sorted(_)
Sorted(S) ==
    IF S = {} THEN <<>>
    ELSE LET m == CHOOSE x \in S : \A y \in S \ {x} : TextLess(x, y)
         IN  <<m>> \o Sorted(S \ {m})

\* strings.Join
RECURSIVE Join(_, _)
Join(ts, sep) ==
    IF ts = <<>> THEN <<>>
    ELSE IF Len(ts) = 1 THEN ts[1]
    ELSE ts[1] \o <<sep>> \o Join(Tail(ts), sep)

FirstIndex(txt, sep) ==
    IF \E i \in 1..Len(txt) : txt[i] = sep
    THEN CHOOSE i \in 1..Len(txt) : txt[i] = sep /\ \A j \in 1..(i - 1) : txt[j] # sep
    ELSE 0

LastIndex(txt, sep) ==
    IF \E i \in 1..Len(txt) : txt[i] = sep
    THEN CHOOSE i \in 1..Len(txt) : txt[i] = sep /\ \A j \in (i + 1)..Len(txt) : txt[j] # sep
    ELSE 0

\* strings.Split
RECURSIVE Split(_, _)
Split(txt, sep) ==
    LET i == FirstIndex(txt, sep) IN
    IF i = 0 THEN <<txt>>
    ELSE <<SubSeq(txt, 1, i - 1)>> \o Split(SubSeq(txt, i + 1, Len(txt)), sep)

\* utils.SplitByFirstByte, utils.SplitByLastByte
SplitByFirstByte(txt, sep) ==
    LET i == FirstIndex(txt, sep) IN
    IF i = 0 THEN <<txt, <<>>>> ELSE <<SubSeq(txt, 1, i - 1), SubSeq(txt, i + 1, Len(txt))>>

SplitByLastByte(txt, sep) ==
    LET i == LastIndex(txt, sep) IN
    IF i = 0 THEN <<txt, <<>>>> ELSE <<SubSeq(txt, 1, i - 1), SubSeq(txt, i + 1, Len(txt))>>

Range(s) == {s[i] : i \in 1..Len(s)}

NoPkg == [Name |-> <<>>, Version |-> <<>>]
MkPkg(name, version) == [Name |-> Text(name), Version |-> Text(version)]

\* Pkg.String(): name@version
PkgText(p) == p.Name \o <<"@">> \o p.Version

NoArgs ==
    [alias |-> {}, deps |-> <<>>, external |-> {}, exports |-> {}, conditions |-> {},
     jsxRuntime |-> NoPkg, externalRequire |-> FALSE, keepNames |-> FALSE,
     ignoreAnnotations |-> FALSE]

\* one line of the payload: the key, and the value after a colon
KeyValue(key, value) == <<<<key, ":">> \o value>>

\* encodeBuildArgs(args, pkg, isDts = false): the fields that are not empty, in a
\* fixed order, sets sorted, a dep that names the package itself left out; the
\* lines joined by newlines and base64url-encoded; nothing to say: the empty prefix
encodeBuildArgs(args, pkg) ==
    LET alias == {al[1] \o <<":">> \o al[2] : al \in args.alias}
        deps == {PkgText(d) : d \in {e \in Range(args.deps) : e.Name # pkg.Name}}
        lines ==
            (IF alias # {} THEN KeyValue("a", Join(Sorted(alias), ",")) ELSE <<>>)
            \o (IF deps # {} THEN KeyValue("d", Join(Sorted(deps), ",")) ELSE <<>>)
            \o (IF args.external # {}
                THEN KeyValue("e", Join(Sorted(args.external), ",")) ELSE <<>>)
            \o (IF args.exports # {}
                THEN KeyValue("s", Join(Sorted(args.exports), ",")) ELSE <<>>)
            \o (IF args.conditions # {}
                THEN KeyValue("c", Join(Sorted(args.conditions), ",")) ELSE <<>>)
            \o (IF args.jsxRuntime # NoPkg
                THEN KeyValue("x", PkgText(args.jsxRuntime)) ELSE <<>>)
            \o (IF args.externalRequire THEN <<<<"r">>>> ELSE <<>>)
            \o (IF args.keepNames THEN <<<<"k">>>> ELSE <<>>)
            \o (IF args.ignoreAnnotations THEN <<<<"i">>>> ELSE <<>>)
    IN  IF lines = <<>> THEN <<>> ELSE btoaUrl(Bytes(Join(lines, "\n")))

ParsePkg(txt) ==
    LET nv == SplitByLastByte(txt, "@") IN [Name |-> nv[1], Version |-> nv[2]]

\* one line of the payload read into the args; an unknown key is an error
ParseLine(r, line) ==
    LET key == IF line = <<>> THEN "" ELSE line[1]
        value == SubSeq(line, 3, Len(line))
        items == Split(value, ",")
    IN  IF r.err \/ line = <<>> \/ (Len(line) > 1 /\ line[2] # ":")
        THEN [r EXCEPT !.err = TRUE]
        ELSE CASE key = "a" ->
                    [r EXCEPT !.args.alias =
                        {SplitByFirstByte(items[i], ":") : i \in 1..Len(items)}]
               [] key = "d" ->
                    [r EXCEPT !.args.deps = [i \in 1..Len(items) |-> ParsePkg(items[i])]]
               [] key = "e" -> [r EXCEPT !.args.external = Range(items)]
               [] key = "s" -> [r EXCEPT !.args.exports = Range(items)]
               [] key = "c" -> [r EXCEPT !.args.conditions = Range(items)]
               [] key = "x" -> [r EXCEPT !.args.jsxRuntime = ParsePkg(value)]
               [] key = "r" -> [r EXCEPT !.args.externalRequire = TRUE]
               [] key = "k" -> [r EXCEPT !.args.keepNames = TRUE]
               [] key = "i" -> [r EXCEPT !.args.ignoreAnnotations = TRUE]
               [] OTHER -> [r EXCEPT !.err = TRUE]

RECURSIVE ParseLines(_, _)
ParseLines(r, lines) ==
    IF lines = <<>> THEN r ELSE ParseLines(ParseLine(r, lines[1]), Tail(lines))

\* decodeBuildArgs(npmrc, argsString)
decodeBuildArgs(s) ==
    LET payload == atobUrl(s) IN
    IF s = <<>> THEN [err |-> FALSE, args |-> NoArgs]
    ELSE IF payload.err THEN [err |-> TRUE, args |-> NoArgs]
    ELSE ParseLines([err |-> FALSE, args |-> NoArgs], Split(Chars(payload.data), "\n"))

\* the build args and packages the passes are run on
\* deps lists without a name twice; the flags externalRequire, keepNames,
\* ignoreAnnotations: none, each alone, all
ArgsSet ==
    LET DepPkgs == {MkPkg("c", "1.0.0"), MkPkg("foo", "1.0.0"), MkPkg("@s/x", "1.0.0")}
        DepLists ==
            {l \in UNION {[1..n -> DepPkgs] : n \in 0..MaxDeps} :
                \A i, j \in 1..Len(l) : l[i].Name = l[j].Name => i = j}
        AliasMaps == {{}, {<<Text("a"), Text("b")>>},
                      {<<Text("c"), Text("d")>>, <<Text("a"), Text("b")>>}}
        FlagSets == {<<FALSE, FALSE, FALSE>>, <<TRUE, FALSE, FALSE>>, <<FALSE, TRUE, FALSE>>,
                     <<FALSE, FALSE, TRUE>>, <<TRUE, TRUE, TRUE>>}
        NameSets == {{}, {Text("baz"), Text("bar")}}
    IN  {[alias |-> al, deps |-> ds, external |-> ex, exports |-> ep, conditions |-> co,
          jsxRuntime |-> jr, externalRequire |-> fl[1], keepNames |-> fl[2],
          ignoreAnnotations |-> fl[3]] :
            al \in AliasMaps, ds \in DepLists, ex \in NameSets, ep \in NameSets,
            co \in {{}, {Text("react-server")}}, jr \in {NoPkg, MkPkg("react", "18.2.0")},
            fl \in FlagSets}

\* build args are handed to the codec
CodecStart(a, p) ==
    /\ codec.pc = "idle"
    /\ codec' = [pc |-> "in", a |-> a, p |-> p]
    /\ UNCHANGED <<queueVars, zone, statusJson, ext, plugin, cjs, loop, workdir, route, serve, build, emit, xform>>

CodecEncode ==
    /\ codec.pc = "in"
    /\ codec' = [pc |-> "enc", a |-> codec.a, p |-> codec.p,
                 s |-> encodeBuildArgs(codec.a, codec.p)]
    /\ UNCHANGED <<queueVars, zone, statusJson, ext, plugin, cjs, loop, workdir, route, serve, build, emit, xform>>

CodecDecode ==
    /\ codec.pc = "enc"
    /\ codec' = [pc |-> "dec", a |-> codec.a, p |-> codec.p, s |-> codec.s,
                 d |-> decodeBuildArgs(codec.s)]
    /\ UNCHANGED <<queueVars, zone, statusJson, ext, plugin, cjs, loop, workdir, route, serve, build, emit, xform>>

\* --------------------------------------- router: the whole module request
\* a GET of a package path with no `*`, no extra query and no target segment,
\* or one of two paths that name no package; css and targetQuery say whether
\* the query has `css` and a valid `target`
ServeRequests ==
    [path : {"module"},
     rq : [ea : {FALSE}, name : Names \cup {"private"}, ver : VerSpecs,
           subPath : SubPaths \cup {"lib/react.js"},
           extraQuery : {""}, query : Queries, target : {FALSE}],
     css : BOOLEAN, targetQuery : BOOLEAN]
    \cup
    [path : {"/error.js", "/.env"},
     rq : [ea : {FALSE}, name : {"react"}, ver : {"18.3.1"}, subPath : {""},
           extraQuery : {""}, query : {<<>>}, target : {FALSE}],
     css : {FALSE}, targetQuery : {FALSE}]

\* what the store, the working directory and the build hold for the request
NoEnv == [raw |-> "none", typesFile |-> "none", outcome |-> "none",
          typesOnly |-> FALSE, packageCSS |-> FALSE]

\* of a raw file, of a types file, of a module
EnvsFor(resType) ==
    IF resType = "raw"
    THEN {[NoEnv EXCEPT !.raw = r] :
            r \in {"present", "installed", "installFail", "missing", "tooLarge"}}
    ELSE IF resType = "types"
    THEN {[NoEnv EXCEPT !.typesFile = f] : f \in {"stored", "found"}}
         \cup {[NoEnv EXCEPT !.typesFile = "absent", !.outcome = o] :
                 o \in {"built", "timeout", "notFound", "error"}}
    ELSE [raw : {"none"}, typesFile : {"none"},
          outcome : {"hit", "built", "timeout", "noFile", "notFound", "error"},
          typesOnly : BOOLEAN, packageCSS : BOOLEAN]

Answer(status, cache, vary, via, effects) ==
    [status |-> status, cache |-> cache, vary |-> vary, via |-> via, effects |-> effects]


\* rex.Status(status, message): no header is set
Status(status, via, effects) == Answer(status, "", FALSE, via, effects)

throwErrorJS(static, via, effects) ==
    Answer("500", IF static THEN ccImmutable ELSE ccMustRevalidate, FALSE, via, effects)

\* validatePkgPath asks the registry when the path has no pinned version
ValidateEffects(rq) == IF rq.ver = ResolveVersion(rq.ver) THEN {} ELSE {"registry"}

\* serve package raw files
ServeRaw(env) ==
    CASE env.raw = "present" -> Answer("200", ccImmutable, FALSE, "raw", {"lstat", "open"})
      [] env.raw = "installed" ->
             Answer("200", ccImmutable, FALSE, "raw", {"lstat", "install", "open"})
      [] env.raw = "installFail" -> Status("500", "raw", {"lstat", "install"})
      [] env.raw = "missing" -> Status("404", "raw", {"lstat", "install"})
      [] env.raw = "tooLarge" -> Status("403", "raw", {"lstat"})

\* serve the types file of the store, or build and return dts
ServeTypes(env) ==
    CASE env.typesFile = "stored" ->
             Answer("200", ccImmutable, FALSE, "types", {"fsStat", "fsOpen"})
      [] env.typesFile = "found" ->
             Answer("200", ccImmutable, FALSE, "types", {"fsStat", "fsOpen"})
      [] env.outcome = "built" ->
             Answer("200", ccImmutable, FALSE, "types", {"fsStat", "queueAdd", "fsOpen"})
      [] env.outcome = "timeout" ->
             Answer("408", ccMustRevalidate, FALSE, "timeout", {"fsStat", "queueAdd"})
      [] env.outcome = "notFound" -> Status("404", "types", {"fsStat", "queueAdd"})
      [] env.outcome = "error" -> Status("500", "types", {"fsStat", "queueAdd"})

\* fault: the wrapper module is sent as immutable whatever the version was
WrapperCacheImmutable(caretVersion) == ccImmutable

\* Cache-Control of the wrapper module
WrapperCache(caretVersion) == IF caretVersion THEN cc10min ELSE ccImmutable

\* buildCtx.Query(), the wait for the build, then the answer by the build result
ServeBare(sq, st, caretVersion, env) ==
    LET done == IF env.outcome = "hit" THEN {"dbQuery"} ELSE {"dbQuery", "queueAdd"}
        targetViaUA == ~sq.targetQuery
    IN  CASE env.outcome = "timeout" ->
                 Answer("408", ccMustRevalidate, FALSE, "timeout", done)
          [] env.outcome = "noFile" ->
                 IF st.pkg.SubPath = "lib/" \o st.pkg.Name \o ".js"
                 THEN Answer("302", "", FALSE, "oldJs", done)
                 ELSE Answer("404", ccImmutable, FALSE, "noFile", done)
          [] env.outcome = "notFound" -> Status("404", "build", done)
          [] env.outcome = "error" -> throwErrorJS(FALSE, "build", done)
          [] env.outcome \in {"hit", "built"} ->
                 IF env.typesOnly
                 THEN Answer("200", ccImmutable, FALSE, "typesOnly", done)
                 ELSE IF sq.css /\ st.pkg.SubModule = ""
                 THEN IF env.packageCSS
                      THEN Answer("301", "", FALSE, "pkgCss", done)
                      ELSE Status("404", "pkgCss", done)
                 ELSE Answer("200", WrapperCache(caretVersion), targetViaUA, "wrapper", done)

\* the router on a path that names no package, and on a module request up to
\* the version redirect; "next": the request goes on to the store and the queue
ServeHead(sq) ==
    IF sq.path = "/.env" THEN Status("404", "malicious", {})
    ELSE IF sq.path = "/error.js" THEN throwErrorJS(TRUE, "error.js", {})
    ELSE LET c == Canonicalize(sq.rq)
             reg == IF c.via = "types" THEN {"registry"} ELSE {}
         IN  Answer(c.status, c.cache, FALSE, c.via, ValidateEffects(sq.rq) \cup reg)

\* the router past the version redirect
ServeModule(sq, env) ==
    LET st == RouteState(sq.rq)
        resType == ResTypeOf(st)
        rs == IF resType = "raw" THEN ServeRaw(env)
              ELSE IF resType = "types" THEN ServeTypes(env)
              ELSE ServeBare(sq, st, validatePkgPath(sq.rq).caretVersion, env)
    IN  [rs EXCEPT !.effects = @ \cup ValidateEffects(sq.rq)]

\* a request arrives at the router
ServeStart(sq) ==
    /\ serve.pc = "idle"
    /\ serve' = [pc |-> "in", sq |-> sq, env |-> NoEnv, rs |-> Answer("none", "", FALSE, "", {})]
    /\ UNCHANGED <<queueVars, zone, statusJson, ext, plugin, cjs, loop, workdir, route, codec, build, emit, xform>>

\* the router answers it before it gets to the store, or goes on
ServeRoute ==
    /\ serve.pc = "in"
    /\ LET rs == ServeHead(serve.sq) IN
         serve' = IF rs.status = "next"
                  THEN [serve EXCEPT !.pc = "build"]
                  ELSE [serve EXCEPT !.pc = "out", !.rs = rs]
    /\ UNCHANGED <<queueVars, zone, statusJson, ext, plugin, cjs, loop, workdir, route, codec, build, emit, xform>>

\* the router answers it from the store, the working directory or the build
ServeFinish(env) ==
    /\ serve.pc = "build"
    /\ env \in EnvsFor(ResTypeOf(RouteState(serve.sq.rq)))
    /\ serve' = [serve EXCEPT !.pc = "out", !.env = env, !.rs = ServeModule(serve.sq, env)]
    /\ UNCHANGED <<queueVars, zone, statusJson, ext, plugin, cjs, loop, workdir, route, codec, build, emit, xform>>

\* --------------------------------------------- build: external imports
Targets == {"node", "denonext", "deno", "es2022"}

\* the tables of Node built-ins: the built-in set, what denonext does not
\* support, the npm polyfills and the embedded polyfills (node_X.js)
builtInNodeModules == {"fs", "buffer", "inspector", "child_process"}
polyfilledBuiltInNodeModules(name) == IF name = "buffer" THEN "buffer@6.0.3" ELSE ""

\* package.json of the packages: what each imports, and what the registry
\* resolves its dependencies to
ImportsOf(name) ==
    IF name = "app" THEN {"react-dom", "react"} \cup builtInNodeModules
    ELSE IF name = "react-dom" THEN {"react", "scheduler", "fs"}
    ELSE {}

getPackageInfo(name) ==
    [Name |-> name,
     Version |-> IF name = "scheduler" THEN "0.23.0"
                 ELSE IF name = "react-dom" THEN "18.2.0"
                 ELSE "18.3.1"]

\* the requests that make a task: package, ?deps, ?external, target, ?deno-std
BuildRequests ==
    [pkg : {[Name |-> "react-dom", Version |-> "18.2.0"], [Name |-> "app", Version |-> "1.0.0"]},
     deps : {<<>>, <<[Name |-> "react", Version |-> "18.0.0"]>>,
             <<[Name |-> "scheduler", Version |-> "0.20.0"],
               [Name |-> "react", Version |-> "18.0.0"]>>,
             <<[Name |-> "scheduler", Version |-> "0.20.0"],
               [Name |-> "scheduler", Version |-> "0.23.0"]>>},
     external : {{}, {"fs"}, {"react"}, {"*"}},
     target : Targets,
     std : {"0.177.0", "0.128.0"}]

\* PkgSlice.Has: false when a member has the name, and false when none has
PkgSliceHas(a, name) ==
    IF \E i \in 1..Len(a) : a[i].Name = name THEN FALSE ELSE FALSE

\* the `?deps` query as the handler parses it, entry by entry: no react entry
\* for react-dom, no entry for the package itself, none that deps.Has
RECURSIVE HandlerDeps(_, _)
HandlerDeps(pkg, depsQuery) ==
    IF depsQuery = <<>> THEN <<>>
    ELSE LET deps == HandlerDeps(pkg, SubSeq(depsQuery, 1, Len(depsQuery) - 1))
             p == depsQuery[Len(depsQuery)]
         IN  IF pkg.Name = "react-dom" /\ p.Name = "react" THEN deps
             ELSE IF ~PkgSliceHas(deps, p.Name) /\ p.Name # pkg.Name THEN Append(deps, p)
             ELSE deps

\* task.getImportPath(pkg, args): the build path of the module on the CDN
getImportPath(t, pkg) ==
    "/" \o pkg.Name \o "@" \o pkg.Version \o "/" \o t.Target \o "/" \o pkg.Name \o ".mjs"

\* fault: denonext gets node:X for every built-in
NodeBuiltinPathAllDenoNext(t, name) ==
    IF t.Target \in {"node", "denonext"} THEN "node:" \o name
    ELSE IF t.Target = "deno"
    THEN "https://deno.land/std@" \o t.denoStdVersion \o "/node/" \o name \o ".ts"
    ELSE "/error.js?type=unsupported-nodejs-builtin-module&name=" \o name
             \o "&importer=" \o t.Pkg.Name

\* node builtin module
NodeBuiltinPath(t, name) ==
    IF t.Target = "node" THEN "node:" \o name
    ELSE IF t.Target = "denonext" /\ name \notin {"inspector"}
    THEN "node:" \o name
    ELSE IF t.Target = "deno"
    THEN "https://deno.land/std@" \o t.denoStdVersion \o "/node/" \o name \o ".ts"
    ELSE IF polyfilledBuiltInNodeModules(name) # ""
    THEN "/" \o polyfilledBuiltInNodeModules(name) \o "/" \o t.Target \o "/"
             \o name \o ".bundle.mjs"
    ELSE IF name \in {"fs"}
    THEN "/v135/node_" \o name \o ".js"
    ELSE "/error.js?type=unsupported-nodejs-builtin-module&name=" \o name
             \o "&importer=" \o t.Pkg.Name

\* use version defined in `?deps` query: the first entry that names the import
DepIndex(t, name) ==
    IF \E i \in 1..Len(t.deps) : t.deps[i].Name = name
    THEN CHOOSE i \in 1..Len(t.deps) :
            /\ t.deps[i].Name = name
            /\ \A j \in 1..(i - 1) : t.deps[j].Name # name
    ELSE 0

\* the package of a common npm dependency, its version from the registry
CommonDep(t, name) ==
    IF name = t.Pkg.Name THEN [Name |-> name, Version |-> t.Pkg.Version]
    ELSE getPackageInfo(name)

\* replace external imports/requires: the import path of one external, and the
\* rule that gave it
ImportPath(t, name) ==
    IF name \in t.external
    THEN [path |-> name, by |-> "external"]
    ELSE IF name \in builtInNodeModules
    THEN [path |-> NodeBuiltinPath(t, name), by |-> "builtin"]
    ELSE IF "*" \in t.external
    THEN [path |-> name, by |-> "externalAll"]
    ELSE IF DepIndex(t, name) # 0
    THEN [path |-> getImportPath(t, t.deps[DepIndex(t, name)]), by |-> "deps"]
    ELSE IF t.Pkg.Name = "react-dom" /\ name = "react"
    THEN [path |-> getImportPath(t, [Name |-> name, Version |-> t.Pkg.Version]),
          by |-> "react-dom"]
    ELSE [path |-> getImportPath(t, CommonDep(t, name)), by |-> "common"]

\* the handler makes the task of a request; ?deno-std=VER counts for the deno
\* target only
BuildStart(pkg, depsQuery, external, target, std) ==
    /\ build.pc = "idle"
    /\ target = "deno" \/ std = "0.177.0"
    /\ build' = [pc |-> "task", origin |-> "request", name |-> "", import |-> "",
                 task |-> [Pkg |-> pkg, deps |-> HandlerDeps(pkg, depsQuery),
                           external |-> external, Target |-> target,
                           denoStdVersion |-> std]]
    /\ UNCHANGED <<queueVars, zone, statusJson, ext, plugin, cjs, loop, workdir, route, codec, serve, emit, xform>>

\* the build rewrites one of the externals of its output
BuildResolve(name) ==
    /\ build.pc = "task"
    /\ name \in ImportsOf(build.task.Pkg.Name)
    /\ build' = [build EXCEPT !.pc = "resolved", !.name = name,
                              !.import = ImportPath(build.task, name)]
    /\ UNCHANGED <<queueVars, zone, statusJson, ext, plugin, cjs, loop, workdir, route, codec, serve, emit, xform>>

\* common npm dependency: the task of the dependency, added to the queue with
\* the deps and the external of the task that imports it
BuildDependency ==
    /\ build.pc = "resolved"
    /\ build.origin = "request"
    /\ build.import.by = "common"
    /\ build' = [pc |-> "task", origin |-> "dependency", name |-> "", import |-> "",
                 task |-> [build.task EXCEPT !.Pkg = CommonDep(build.task, build.name)]]
    /\ UNCHANGED <<queueVars, zone, statusJson, ext, plugin, cjs, loop, workdir, route, codec, serve, emit, xform>>

\* ---------------------------------------------------------- POST /transform
MaxModules == 2     \* transform outputs posted

\* the User-Agent table: Deno is recognised, anything unknown gets the weakest
\* target
UserAgents == {"Deno/1.33.2", ""}
getBuildTargetByUA(userAgent) == IF userAgent = "Deno/1.33.2" THEN "denonext" ELSE "es2015"

\* the bodies posted
TransformInputs ==
    [Code : {"1+1", "<h1/>"}, Filename : {"", "a.jsx"}, Target : {"", "es2015", "denonext"}]

\* sha1 over loader, code and import map: what goes in stands for the digest;
\* the loader by the extension of the file name, js by default
Hash(input) == <<IF input.Filename = "a.jsx" THEN "jsx" ELSE "js", input.Code>>

\* modules/<hash>.<target>.mjs
SavePath(hash, target) == [hash |-> hash, target |-> target]

NoModule == [status |-> "none", cache |-> "", vary |-> "", path |-> SavePath(<<>>, ""), posted |-> FALSE]

\* POST /transform: the target of the body or of the User-Agent, the stored
\* output when there is one, else the transform, whose output is handed to a
\* goroutine to write while the handler returns {code}
Transform(input, userAgent, ok) ==
    LET target == IF input.Target \in Targets \cup {"es2015"} THEN input.Target
                  ELSE getBuildTargetByUA(userAgent)
        savePath == SavePath(Hash(input), target)
    IN  /\ Cardinality(xform.posted \cup {savePath}) <= MaxModules
        /\ IF savePath \in xform.files
           THEN xform' = [xform EXCEPT !.post = "200", !.rs = NoModule,
                                       !.posted = @ \cup {savePath}]
           ELSE IF ~ok
           THEN xform' = [xform EXCEPT !.post = "400", !.rs = NoModule]
           ELSE xform' = [xform EXCEPT !.post = "200", !.rs = NoModule,
                                       !.posted = @ \cup {savePath},
                                       !.writing = @ \cup {savePath}]
        /\ UNCHANGED <<queueVars, zone, statusJson, ext, plugin, cjs, loop, workdir, route, codec, serve, build, emit>>

\* the goroutine's fs.WriteFile gets the output into the store
WriteFile(savePath) ==
    /\ savePath \in xform.writing
    /\ xform' = [xform EXCEPT !.writing = @ \ {savePath}, !.files = @ \cup {savePath}]
    /\ UNCHANGED <<queueVars, zone, statusJson, ext, plugin, cjs, loop, workdir, route, codec, serve, build, emit>>

\* the goroutine's fs.WriteFile fails; nothing reads its error
WriteFileFails(savePath) ==
    /\ savePath \in xform.writing
    /\ xform' = [xform EXCEPT !.writing = @ \ {savePath}]
    /\ UNCHANGED <<queueVars, zone, statusJson, ext, plugin, cjs, loop, workdir, route, codec, serve, build, emit>>

\* GET /+<hash>.mjs: the stored output of the hash for the User-Agent's target
GetModule(hash, userAgent) ==
    LET savePath == SavePath(hash, getBuildTargetByUA(userAgent))
    IN  /\ xform.post # "none"
        /\ xform' = [xform EXCEPT !.rs =
               IF savePath \in xform.files
               THEN [status |-> "200", cache |-> ccImmutable, vary |-> "User-Agent",
                     path |-> savePath, posted |-> savePath \in xform.posted]
               ELSE [status |-> "404", cache |-> "", vary |-> "",
                     path |-> savePath, posted |-> savePath \in xform.posted]]
        /\ UNCHANGED <<queueVars, zone, statusJson, ext, plugin, cjs, loop, workdir, route, codec, serve, build, emit>>

\* ------------------------------------------------------- build output files
MaxOutput == 4      \* bytes of an output file of the bundler

\* contents up to n of the bytes that matter to the first line of a file
RECURSIVE OutputsOf(_)
OutputsOf(n) ==
    IF n = 0 THEN {<<>>}
    ELSE LET shorter == OutputsOf(n - 1)
         IN  shorter \cup {Append(c, b) : c \in {x \in shorter : Len(x) = n - 1}, 
                           b \in {"#", "!", "/", " ", "a", "\n"}}

\* bytes.HasPrefix
HasPrefix(content, prefix) ==
    /\ Len(content) >= Len(prefix)
    /\ SubSeq(content, 1, Len(prefix)) = prefix

\* bytes.IndexByte: the index from 0 of the first b, -1 when there is none
IndexByte(content, b) ==
    IF \E i \in 1..Len(content) : content[i] = b
    THEN (CHOOSE i \in 1..Len(content) :
              content[i] = b /\ \A j \in 1..(i - 1) : content[j] # b) - 1
    ELSE -1

\* remove shebang
RemoveShebang(outputContent) ==
    IF HasPrefix(outputContent, <<"#", "!", "/">>)
    THEN SubSeq(outputContent, (IndexByte(outputContent, "\n") + 1) + 1, Len(outputContent))
    ELSE outputContent

\* the comment line every .js artefact starts with
BundleComment == <<"/* esm.sh - esbuild bundle */", "\n">>

\* the bundler hands over an output file
EmitOutput(contents) ==
    /\ emit.pc = "idle"
    /\ emit' = [pc |-> "output", outputContent |-> contents, written |-> <<>>]
    /\ UNCHANGED <<queueVars, zone, statusJson, ext, plugin, cjs, loop, workdir, route, codec, serve, build, xform>>

\* the file is written after the comment line, its shebang removed
EmitWrite ==
    /\ emit.pc = "output"
    /\ emit' = [emit EXCEPT !.pc = "written",
                             !.written = BundleComment \o RemoveShebang(emit.outputContent)]
    /\ UNCHANGED <<queueVars, zone, statusJson, ext, plugin, cjs, loop, workdir, route, codec, serve, build, xform>>

\* ------------------------------------------------- working directories
\* the jobs of one package version (its targets) use one working directory
\* task.wd is made: ensureDir; a timer that is armed stays armed
WdStart(j) ==
    /\ workdir.job[j] = "idle"
    /\ workdir' = [workdir EXCEPT !.job[j] = "install", !.dir = TRUE]
    /\ UNCHANGED <<queueVars, zone, statusJson, ext, plugin, cjs, loop, route, codec, serve, build, emit, xform>>

\* installPackage puts the package under the directory
WdInstall(j) ==
    /\ workdir.job[j] = "install"
    /\ workdir' = [workdir EXCEPT !.job[j] = "build", !.dir = TRUE]
    /\ UNCHANGED <<queueVars, zone, statusJson, ext, plugin, cjs, loop, route, codec, serve, build, emit, xform>>

\* Build() returns, after the install or after build(): the deferred call
\* stops the timer of the package version, if any, and toPurge arms a new one
WdReturn(j) ==
    /\ workdir.job[j] \in {"install", "build"}
    /\ workdir' = [workdir EXCEPT !.job[j] = "done", !.timer = TRUE]
    /\ UNCHANGED <<queueVars, zone, statusJson, ext, plugin, cjs, loop, route, codec, serve, build, emit, xform>>

\* the timer fires: the directory is removed
WdPurge ==
    /\ workdir.timer
    /\ workdir' = [workdir EXCEPT !.timer = FALSE, !.dir = FALSE]
    /\ UNCHANGED <<queueVars, zone, statusJson, ext, plugin, cjs, loop, route, codec, serve, build, emit, xform>>

\* the task has left the queue; a later request makes a task of the identity
WdAgain(j) ==
    /\ workdir.job[j] = "done"
    /\ workdir' = [workdir EXCEPT !.job[j] = "idle"]
    /\ UNCHANGED <<queueVars, zone, statusJson, ext, plugin, cjs, loop, route, codec, serve, build, emit, xform>>

\* --------------------------------------------------- build: rebuild loop
\* fault: a specifier is taken for new every time
ImplicitExternalIsNew(l, name) == TRUE

\* !implicitExternal.Has(name)
ImplicitExternalNew(l, name) == name \notin l.implicitExternal

\* the loop after one api.Build: done, a rebuild with one more mark, or failed
AfterBuild(l, e) ==
    LET again(cause) == [l EXCEPT !.rebuilds = Append(@, cause)]
        failed(msg) == [l EXCEPT !.pc = "failed", !.err = msg]
        module == IF e.path = "browser-exclude:m" THEN "m" ELSE e.path
    IN  IF e.kind = "none" THEN [l EXCEPT !.pc = "done"]
        ELSE IF e.kind = "resolve" /\ e.name = "pkg" THEN failed("could not resolve entry")
        ELSE IF e.kind = "resolve" /\ ImplicitExternalNew(l, e.name)
        THEN [again(<<"resolve", e.name>>) EXCEPT !.implicitExternal = @ \cup {e.name}]
        ELSE IF /\ e.kind = "export" /\ e.path = "browser-exclude:m" /\ e.export # "default"
                /\ <<module, e.export>> \notin l.browserExclude
        THEN [again(<<"export", module, e.export>>)
                 EXCEPT !.browserExclude = @ \cup {<<module, e.export>>}]
        ELSE failed("esbuild")

\* build() sets out with nothing marked
LoopStart ==
    /\ loop.pc = "idle"
    /\ loop' = [loop EXCEPT !.pc = "build"]
    /\ UNCHANGED <<queueVars, zone, statusJson, ext, plugin, cjs, workdir, route, codec, serve, build, emit, xform>>

\* one api.Build and the handling of its first error
LoopBuild(e) ==
    /\ loop.pc = "build"
    /\ loop' = AfterBuild(loop, e)
    /\ UNCHANGED <<queueVars, zone, statusJson, ext, plugin, cjs, workdir, route, codec, serve, build, emit, xform>>

\* ------------------------------------------------ build: require() of externals
\* an external specifier as the walk sees it: its name (a Node built-in,
\* node-fetch, a package replaced by a constant, another package), whether
\* analyze() succeeds, whether its package.json has `module`, its named exports,
\* and whether the output has the text __esModule
CjsDeps ==
    {dep \in [name : {"fs", "node-fetch", "object-assign", "htmlparser"},
              analyzed : BOOLEAN, module : BOOLEAN,
              NamedExports : {{}, {"default"}, {"default", "Parser"},
                              {"default", "Parser", "__esModule"}},
              esModuleInOutput : BOOLEAN] :
        "Parser" \in dep.NamedExports => dep.name = "htmlparser"}

\* the import name one occurrence adds to cjsImportNames
CjsImportName(dep, key) ==
    LET HasExportDefault == "default" \in dep.NamedExports IN
    IF dep.name \in builtInNodeModules THEN "default"
    ELSE IF dep.name = "node-fetch" THEN "*"
    ELSE IF ~dep.analyzed THEN "default?"
    ELSE IF key # "" /\ key # "default" /\ key \in dep.NamedExports THEN key
    ELSE IF key # "" THEN "default"
    ELSE IF dep.module
    THEN IF HasExportDefault /\ Cardinality(dep.NamedExports) = 1 THEN "default"
         ELSE IF dep.esModuleInOutput THEN "*?"
         ELSE "*"
    ELSE IF "__esModule" \in dep.NamedExports /\ HasExportDefault THEN "*"
    ELSE "default?"

\* cjsImportNames after the walk: default? goes when default is there, *? when
\* * is there
CjsImportNames(dep, occs) ==
    LET names == {CjsImportName(dep, key) : key \in occs} IN
    (names \ (IF "default" \in names THEN {"default?"} ELSE {}))
        \ (IF "*" \in names THEN {"*?"} ELSE {})

\* the statements prepended for the import names, in the order of the set; each
\* is the kind of declaration and the identifier it declares
CjsStatements(dep, names) ==
    LET Statement(importName) ==
            IF dep.name = "object-assign" THEN <<"const", "__1$">>
            ELSE IF importName = "*" THEN <<"import *", "__1$">>
            ELSE IF importName \in {"*?", "default?"} THEN <<"const", "__1$">>
            ELSE IF importName = "default" THEN <<"import", "__1$">>
            ELSE <<"import {}", "__1$" \o importName>>
        order == <<"*", "*?", "Parser", "default", "default?">>
    IN  [i \in 1..Len(SelectSeq(order, LAMBDA n : n \in names)) |->
            Statement(SelectSeq(order, LAMBDA n : n \in names)[i])]

\* the walk over the output finds the occurrences of the specifier
CjsWalk(dep, occs) ==
    /\ cjs.pc = "idle"
    /\ occs # {}
    /\ cjs' = [pc |-> "walked", dep |-> dep, occs |-> occs, statements |-> <<>>]
    /\ UNCHANGED <<queueVars, zone, statusJson, ext, plugin, loop, workdir, route, codec, serve, build, emit, xform>>

\* the statements are written in front of the output
CjsPrepend ==
    /\ cjs.pc = "walked"
    /\ cjs' = [cjs EXCEPT !.pc = "written",
                           !.statements = CjsStatements(cjs.dep, CjsImportNames(cjs.dep, cjs.occs))]
    /\ UNCHANGED <<queueVars, zone, statusJson, ext, plugin, loop, workdir, route, codec, serve, build, emit, xform>>

\* ------------------------------------------------ build: resolve plugin
\* splitPkgPath: the package name of a specifier
PkgNameOf(specifier) ==
    IF specifier = "react/jsx-runtime" THEN "react"
    ELSE IF specifier = "lodash/get" THEN "lodash"
    ELSE IF specifier = "peer/sub" THEN "peer"
    ELSE specifier

\* bundles all dependencies in `bundle` mode, apart from peer dependencies and
\* `?external` query: "inline" is the empty OnResolveResult, which leaves the
\* import to the bundler; "pass" goes on to the rules that externalize
OnResolveBundle(bt, implicitExternal, specifier) ==
    IF /\ bt.Bundle
       /\ specifier \notin implicitExternal
       /\ specifier \notin bt.external
       /\ PkgNameOf(specifier) \notin builtInNodeModules
       /\ PkgNameOf(specifier) \notin bt.PeerDependencies
    THEN "inline"
    ELSE "pass"

\* the bundler asks the plugin for an import of the package
OnResolve(bt, implicitExternal, specifier) ==
    /\ plugin.pc = "idle"
    /\ plugin' = [pc |-> "resolved", task |-> bt, implicitExternal |-> implicitExternal,
                  specifier |-> specifier,
                  result |-> OnResolveBundle(bt, implicitExternal, specifier)]
    /\ UNCHANGED <<queueVars, zone, statusJson, ext, cjs, loop, workdir, route, codec, serve, build, emit, xform>>

\* ------------------------------------- build: replace external imports
MaxImports == 3

MaxImplicit == 1

\* a run of bytes of the output: its text, and for a replacement the
\* specifier whose import path was written or the number of the identifier
Run(t) == [t |-> t, v |-> <<>>, n |-> 0]

RunsOf(name) == [i \in 1..Len(name) |-> Run(name[i])]

\* orderedStringSet.Add
OrderedAdd(set, name) ==
    IF \E i \in 1..Len(set) : set[i] = name THEN set ELSE Append(set, name)

\* "\"__ESM_SH_EXTERNAL:" + name + "\"" as the bundler prints the path of an
\* external import
MarkerPrefix(name) == <<Run("\"__ESM_SH_EXTERNAL:")>> \o RunsOf(name)

Marker(name) == <<Run("\"__ESM_SH_EXTERNAL:")>> \o RunsOf(name) \o <<Run("\"")>>

\* the resolve plugin externalizes an import: the specifier goes into
\* externalDeps and the bundler prints the call site with the marker as path
Externalize(name, site) ==
    /\ ext.pc = "resolve"
    /\ Len(ext.markers) < MaxImports
    /\ ext' = [ext EXCEPT
           !.externalDeps = OrderedAdd(@, name),
           !.markers = Append(@, name),
           !.outputContent = @ \o <<Run(site)>> \o <<Run("\"__ESM_SH_EXTERNAL:")>>
                               \o RunsOf(name) \o <<Run("\"")>>
                               \o (IF site = "from " THEN <<Run(";")>> ELSE <<Run(")")>>)]
    /\ UNCHANGED <<queueVars, zone, statusJson, plugin, cjs, loop, workdir, route, codec, serve, build, emit, xform>>

\* a module the bundler could not resolve is marked external before the
\* rebuild: it is in externalDeps without a marker of the plugin
ImplicitExternal(name) ==
    /\ ext.pc = "resolve"
    /\ ext.markers = <<>>
    /\ Len(ext.externalDeps) < MaxImplicit
    /\ ext' = [ext EXCEPT !.externalDeps = OrderedAdd(@, name)]
    /\ UNCHANGED <<queueVars, zone, statusJson, plugin, cjs, loop, workdir, route, codec, serve, build, emit, xform>>

\* bytes.Split
RECURSIVE BytesSplit(_, _)
BytesSplit(s, sep) ==
    LET at == {i \in 1..(Len(s) - Len(sep) + 1) : SubSeq(s, i, i + Len(sep) - 1) = sep}
    IN  IF at = {} THEN <<s>>
        ELSE LET i == CHOOSE j \in at : \A k \in at : j <= k
             IN  <<SubSeq(s, 1, i - 1)>> \o BytesSplit(SubSeq(s, i + Len(sep), Len(s)), sep)

\* the walk over the pieces between the markers of one specifier: a piece that
\* ends with `require(` makes a CJS context, where `require(` and the `)` of
\* the next piece are stripped and the identifier is written; otherwise the
\* quoted import path is written
RECURSIVE Walk(_, _, _, _, _)
Walk(slice, i, cjsContext, name, identifier) ==
    IF i > Len(slice) THEN <<>>
    ELSE LET p0 == slice[i]
             p1 == IF cjsContext /\ p0 # <<>> /\ Head(p0) = Run(")") THEN Tail(p0) ELSE p0
             cx == p1 # <<>> /\ p1[Len(p1)] = Run("require(")
             p2 == IF cx THEN SubSeq(p1, 1, Len(p1) - 1) ELSE p1
             w  == IF i = Len(slice) THEN <<>>
                   ELSE IF cx THEN <<[t |-> "ident", v |-> <<>>, n |-> identifier]>>
                   ELSE <<[t |-> "path", v |-> name, n |-> 0]>>
         IN  p2 \o w \o Walk(slice, i + 1, cx, name, identifier)

\* the loop over externalDeps.Values(): an import path for the name, or the
\* build fails; then the walk, and the import statements before the content
\* when there was a CJS context
RECURSIVE ReplaceExternals(_, _, _)
ReplaceExternals(deps, depIndex, outputContent) ==
    IF depIndex >= Len(deps) THEN [err |-> FALSE, outputContent |-> outputContent]
    ELSE LET name == deps[depIndex + 1]
             identifier == Len(deps) - depIndex
             slice == BytesSplit(outputContent, Marker(name))
             buffer == Walk(slice, 1, FALSE, name, identifier)
             cjs_ == \E k \in 1..Len(buffer) : buffer[k].t = "ident" /\ buffer[k].n = identifier
             out == IF cjs_ THEN <<[t |-> "import", v |-> name, n |-> identifier]>> \o buffer
                    ELSE buffer
         IN  IF name = <<"nopkg">> THEN [err |-> TRUE, outputContent |-> outputContent]
             ELSE ReplaceExternals(deps, depIndex + 1, out)

\* the bundler has finished: replace external imports/requires
Replace ==
    /\ ext.pc = "resolve"
    /\ LET r == ReplaceExternals(ext.externalDeps, 0, ext.outputContent)
       IN  ext' = [ext EXCEPT !.pc = IF r.err THEN "error" ELSE "done",
                              !.outputContent = r.outputContent]
    /\ UNCHANGED <<queueVars, zone, statusJson, plugin, cjs, loop, workdir, route, codec, serve, build, emit, xform>>

\* ------------------------------------------------------- /status.json
\* q := make([]map[string]interface{}, buildQueue.queue.Len())
StatusMake ==
    /\ statusJson.pc = "idle"
    /\ statusJson' = [pc |-> "made", size |-> Len(queue), q |-> <<>>]
    /\ UNCHANGED <<queueVars, zone, ext, plugin, cjs, loop, workdir, route, codec, serve, build, emit, xform>>

\* under the read lock: one entry per task of the queue, q[i] = m; an index
\* past the slice panics
StatusList ==
    /\ statusJson.pc = "made"
    /\ statusJson' = IF Len(queue) > statusJson.size
                 THEN [statusJson EXCEPT !.pc = "panic", !.q = SubSeq(queue, 1, statusJson.size)]
                 ELSE [statusJson EXCEPT !.pc = "listed", !.q = queue]
    /\ UNCHANGED <<queueVars, zone, ext, plugin, cjs, loop, workdir, route, codec, serve, build, emit, xform>>

\* the response is q[:i]; the handler is free for the next request
StatusReturn ==
    /\ statusJson.pc \in {"listed", "panic"}
    /\ statusJson' = [pc |-> "idle", size |-> 0, q |-> <<>>]
    /\ UNCHANGED <<queueVars, zone, ext, plugin, cjs, loop, workdir, route, codec, serve, build, emit, xform>>

\* ------------------------------------------------------- router: X-Zone-Id
\* valid.IsDomain
IsDomain(zoneId) == zoneId = "zone.example.com"

\* pkgName[:strings.Index(pkgName, "/")] of a name that starts with "@"
ScopeOf(name) == IF PathName(name) = "@types/react" THEN "@types" ELSE ""

\* a package request arrives: the header, the package of the path, whether
\* validatePkgPath will take the path, and the token of the npmrc
ZoneRequest(header, name, validPath, token) ==
    /\ zone.pc = "idle"
    /\ zone' = [pc |-> "zone", header |-> header, zoneId |-> "", name |-> name,
                validPath |-> validPath, token |-> token, reached |-> {}, resp |-> ""]
    /\ UNCHANGED <<queueVars, statusJson, ext, plugin, cjs, loop, workdir, route, codec, serve, build, emit, xform>>

\* the zone id of the request: dropped when it is no domain or the npmrc is
\* the public registry without credentials; for a scoped package the handler
\* returns the scope (scopeName is never assigned, so the scoped registries
\* are not looked at)
ZoneSelect ==
    /\ zone.pc = "zone"
    /\ LET z1 == IF zone.header # "" /\ ~IsDomain(zone.header) THEN "" ELSE zone.header
       IN  IF z1 # "" /\ ScopeOf(zone.name) # ""
           THEN zone' = [zone EXCEPT !.pc = "answered", !.resp = ScopeOf(zone.name)]
           ELSE zone' = [zone EXCEPT !.pc = "validate",
                                    !.zoneId = IF z1 # "" /\ zone.token = "" THEN "" ELSE z1]
    /\ UNCHANGED <<queueVars, statusJson, ext, plugin, cjs, loop, workdir, route, codec, serve, build, emit, xform>>

\* get package info: validatePkgPath, 400 for a path it does not take
ZoneValidate ==
    /\ zone.pc = "validate"
    /\ zone' = IF zone.validPath
               THEN [zone EXCEPT !.pc = "allowban", !.reached = @ \cup {"validatePkgPath"}]
               ELSE [zone EXCEPT !.pc = "answered", !.reached = @ \cup {"validatePkgPath"},
                                 !.resp = "400"]
    /\ UNCHANGED <<queueVars, statusJson, ext, plugin, cjs, loop, workdir, route, codec, serve, build, emit, xform>>

\* the allow/ban check, then the rest of the handler
ZoneAllowBan ==
    /\ zone.pc = "allowban"
    /\ zone' = [zone EXCEPT !.pc = "answered", !.reached = @ \cup {"allow/ban"},
                            !.resp = IF Forbidden(zone.name) THEN "403" ELSE "handled"]
    /\ UNCHANGED <<queueVars, statusJson, ext, plugin, cjs, loop, workdir, route, codec, serve, build, emit, xform>>

\* ------------------------------------------------------------ specification
\* every step but the bundling, whose resolved dependency version is an input
Others ==
    \/ \E r \in Reqs, x \in ReqIds, kind \in {"bare", "build"} : ReqStart(r, x, kind)
    \/ \E r \in Reqs : ReqAdd(r)
    \/ \E r \in Reqs : ReqReceive(r)
    \/ \E r \in Reqs, via \in {"router", "esmHandler"} : ReqTimeout(r, via)
    \/ \E t \in Slots : StartNext(t)
    \/ \E t \in Slots : BuildError(t)
    \/ \E t \in Slots : BuildWriteFail(t)
    \/ \E t \in Slots, putOk \in BOOLEAN : StoreToDB(t, putOk)
    \/ \E t \in Slots : Expire(t)
    \/ \E x \in ReqIds : Purge(x)
    \/ \E x \in Ids : FsRemove(x)

\* the registry holds one version of every dependency all along
Next ==
    \/ \E t \in Slots : BuildWrite(t, 1)
    \/ Others

Spec == Init /\ [][Next]_vars

\* the registry may resolve a dependency range differently from build to build
NextPublishing ==
    \/ \E t \in Slots, ver \in 1..MaxReg : BuildWrite(t, ver)
    \/ Others

SpecPublishing == Init /\ [][NextPublishing]_vars

\* the worker pool takes the oldest pending task when a slot is free, and a build
\* that was started goes through its steps: bundling and writing, then storeToDB
Fairness ==
    /\ WF_vars(\E t \in Slots : StartNext(t))
    /\ WF_vars(\E t \in Slots : BuildWrite(t, 1))
    /\ WF_vars(\E t \in Slots : StoreToDB(t, TRUE))

\* the queue and its callers: requests for wrapper modules, no purge (the file
\* side of the store does not bear on the queue)
NextQueue ==
    \/ \E r \in Reqs, x \in ReqIds : ReqStart(r, x, "bare")
    \/ \E r \in Reqs : ReqAdd(r)
    \/ \E r \in Reqs : ReqReceive(r)
    \/ \E r \in Reqs, via \in {"router", "esmHandler"} : ReqTimeout(r, via)
    \/ \E t \in Slots : StartNext(t)
    \/ \E t \in Slots : BuildError(t)
    \/ \E t \in Slots : BuildWrite(t, 1)
    \/ \E t \in Slots : BuildWriteFail(t)
    \/ \E t \in Slots, putOk \in BOOLEAN : StoreToDB(t, putOk)
    \/ \E t \in Slots : Expire(t)

FairSpec == Init /\ [][NextQueue]_vars /\ Fairness

\* the router's canonicalization, over every request of the bounded shapes
NextRoute ==
    \/ \E rq \in Requests : RouteStart(rq)
    \/ RouteAnswer

SpecRoute == Init /\ [][NextRoute]_vars

\* the args codec, over every build args value of the bounded shapes
NextArgs ==
    \/ \E a \in ArgsSet,
          p \in {[Name |-> Text("foo"), Version |-> <<>>], [Name |-> Text("c"), Version |-> <<>>]} :
           CodecStart(a, p)
    \/ CodecEncode
    \/ CodecDecode

SpecArgs == Init /\ [][NextArgs]_vars

\* the router, over every request of the bounded shapes and everything the
\* store and the build may hold for it
NextServe ==
    \/ \E sq \in ServeRequests : ServeStart(sq)
    \/ ServeRoute
    \/ \E env \in EnvsFor("raw") \cup EnvsFor("types") \cup EnvsFor("bare") : ServeFinish(env)

SpecServe == Init /\ [][NextServe]_vars

\* the rewrite of external imports, over the tasks of requests and of their
\* dependencies
NextBuild ==
    \/ \E b \in BuildRequests : BuildStart(b.pkg, b.deps, b.external, b.target, b.std)
    \/ \E name \in ImportsOf("app") \cup ImportsOf("react-dom") : BuildResolve(name)
    \/ BuildDependency

SpecBuild == Init /\ [][NextBuild]_vars

\* /transform and the modules it stores
NextTransform ==
    \/ \E input \in TransformInputs, ua \in UserAgents, ok \in BOOLEAN : Transform(input, ua, ok)
    \/ \E savePath \in xform.writing : WriteFile(savePath)
    \/ \E savePath \in xform.writing : WriteFileFails(savePath)
    \/ \E input \in TransformInputs, ua \in UserAgents : GetModule(Hash(input), ua)

SpecTransform == Init /\ [][NextTransform]_vars

\* the output files of a build
NextEmit ==
    \/ \E contents \in OutputsOf(MaxOutput) : EmitOutput(contents)
    \/ EmitWrite

SpecEmit == Init /\ [][NextEmit]_vars

\* the jobs of one package version and the purge timer
NextWorkdir ==
    \/ \E j \in 1..MaxJobs : WdStart(j)
    \/ \E j \in 1..MaxJobs : WdInstall(j)
    \/ \E j \in 1..MaxJobs : WdReturn(j)
    \/ WdPurge
    \/ \E j \in 1..MaxJobs : WdAgain(j)

SpecWorkdir == Init /\ [][NextWorkdir]_vars

\* the rebuild loop over every first error the bundler may report, which is
\* result.Errors[0] of api.Build: none, `Could not resolve "name"` (the entry
\* module is "pkg"), `No matching export in "path" for import "export"`, or
\* another error
NextLoop ==
    \/ LoopStart
    \/ \E e \in [kind : {"none", "other"}, name : {""}, path : {""}, export : {""}]
              \cup [kind : {"resolve"}, name : {"pkg", "a", "b", "c"}, path : {""}, export : {""}]
              \cup [kind : {"export"}, name : {""}, path : {"browser-exclude:m", "m"},
                    export : {"default", "x", "y"}] :
           LoopBuild(e)

SpecLoop == Init /\ [][NextLoop]_vars

\* the require() occurrences of one external specifier; what follows a
\* require("name") is nothing or `.key`
NextCjs ==
    \/ \E dep \in CjsDeps, occs \in SUBSET {"", "Parser", "missing", "default"} :
          CjsWalk(dep, occs)
    \/ CjsPrepend

SpecCjs == Init /\ [][NextCjs]_vars

\* the resolve plugin over builds with and without bundle mode, the external
\* arg empty, naming packages or `*`, and imports of packages and sub-paths
NextPlugin ==
    \E bt \in [Bundle : BOOLEAN, PeerDependencies : {{"peer"}},
                  external : {{}, {"react"}, {"react", "lodash/get"}, {"*"}}],
       implicitExternal \in {{}, {"lodash"}},
       specifier \in {"react", "react/jsx-runtime", "react-dom", "lodash", "lodash/get",
                      "fs", "peer", "peer/sub"} :
        OnResolve(bt, implicitExternal, specifier)

SpecPlugin == Init /\ [][NextPlugin]_vars

\* the imports of a build as the plugin externalizes them, then the replacement;
\* specifiers are runs of bytes, so that one is a prefix of another, and "nopkg"
\* is a package the registry does not know
NextExt ==
    \/ \E name \in {<<"react">>, <<"react", "-dom">>, <<"fs">>, <<"nopkg">>} :
          \/ \E site \in {"from ", "require(", "import("} : Externalize(name, site)
          \/ ImplicitExternal(name)
    \/ Replace

SpecExt == Init /\ [][NextExt]_vars

\* the queue and its callers, with requests for /status.json beside them
NextStatus ==
    \/ NextQueue
    \/ StatusMake
    \/ StatusList
    \/ StatusReturn

SpecStatus == Init /\ [][NextStatus]_vars

\* package requests with and without the header, for plain and scoped packages
NextZone ==
    \/ \E header \in {"", "not a domain", "zone.example.com"}, name \in Names \cup {"private"}, validPath \in BOOLEAN,
          token \in {"", "secret"} : ZoneRequest(header, name, validPath, token)
    \/ ZoneSelect
    \/ ZoneValidate
    \/ ZoneAllowBan

SpecZone == Init /\ [][NextZone]_vars

\* ------------------------------------------------------------------ claims
\* the request names no fully pinned version
LacksPinnedVersion(rq) == rq.ver # ResolveVersion(rq.ver)

\* the requests the router answers before or instead of the version redirect
\* by rule: a banned package, the main entry of an @types or CSS package, and
\* the wrapper of a caret range of a registry package (served, cached 10 minutes)
AnsweredByRule(rq) ==
    \/ rq.name \in BanList
    \/ rq.subPath = "" /\ (rq.name = "@types/react" \/ cssPackages(rq.name) # "")
    \/ /\ rq.ver = "^18.2.0"
       /\ rq.name # "ije/gox"
       /\ rq.subPath # "index.d.ts"
       /\ \A i \in 1..Len(rq.query) : rq.query[i] # "raw"

\* the request's own path with the resolved version in it: the `*` sign, the
\* name, the version, then the sub-path and the query string; a path that has
\* an extra query keeps the query string merged into it
SamePathWithVersion(rq) ==
    LET head == cdnOrigin \o (IF rq.name = "ije/gox" THEN "/gh" ELSE "") \o "/"
                \o (IF rq.ea THEN "*" ELSE "") \o PathName(rq.name)
                \o "@" \o ResolveVersion(rq.ver)
        subPath == IF rq.subPath # "" THEN "/" \o rq.subPath ELSE ""
    IN  IF rq.extraQuery # ""
        THEN head \o "&" \o JoinQuery(<<rq.extraQuery>> \o rq.query) \o subPath
        ELSE head \o subPath
             \o (IF rq.query # <<>> THEN "?" \o JoinQuery(rq.query) ELSE "")

\* C3: a module request that lacks the pinned version and is not a target URL
\* is answered 302 with the same path, the resolved version filled in, the `*`
\* sign, the sub-path and the query string kept. (Stated for the requests the
\* router does not answer by another rule.)
C3_VersionRedirect ==
    (route.pc = "out" /\ LacksPinnedVersion(route.rq) /\ ~route.rq.target
       /\ ~AnsweredByRule(route.rq))
      => /\ route.rs.status = "302"
         /\ route.rs.location = SamePathWithVersion(route.rq)

Live(t) == task[t].stage \in {"pending", "build", "written"}

InProcess == {t \in Slots : task[t].inProcess}

\* C1: single-flight. However many times an identity is added before its build
\* completes, the queue holds one task for it, so its build is started once and
\* no two builds of it are in process together; the waiters attached to the task
\* all get the task's one output, and none gets anything before it is done.
C1_SingleFlight ==
    /\ \A t, u \in Slots :
         (task[t].stage # "none" /\ task[u].stage # "none" /\ task[t].id = task[u].id)
            => t = u
    /\ \A x \in Ids : Cardinality({t \in InProcess : task[t].id = x}) <= 1
    /\ \A t \in Slots : \A r \in task[t].clients :
         sink[r] = IF task[t].stage = "done" THEN task[t].output ELSE "empty"

\* both connections added x before its build completed, and both hold its result
C1_Witness ==
    \E t \in Slots :
       /\ task[t].id = "x"
       /\ task[t].stage = "done"
       /\ task[t].clients = Reqs
       /\ \A r \in Reqs : req[r].pc = "wait" /\ sink[r] = "ok"

\* C2: a request whose probe found the metadata record is answered from the
\* record and never goes to the queue; the requests that add a task or wait on
\* one are those whose probe missed.
C2_ProbeHit ==
    /\ \A r \in Reqs : req[r].pc \in {"miss", "wait"} => ~req[r].hasBuild
    /\ \A t \in Slots : \A r \in task[t].clients : ~req[r].hasBuild
    /\ resp.from = "record" => Query("x")

\* a wrapper request was answered from the stored record
C2_Witness == resp.status = "200" /\ resp.from = "record" /\ Query("x")

\* C4: a build wait that times out in the router answers 408 and detaches the
\* request's sink, so the waiter count of the task drops by one.
C4_RouterDetaches ==
    [][(resp'.status = "408" /\ resp'.from = "router" /\ tasks["x"] # 0)
          => /\ tasks'["x"] = tasks["x"]
             /\ Waiters(tasks["x"])' = Waiters(tasks["x"]) - 1]_vars

C7_PurgeComplete == resp.from # "stale"

\* C8: the bytes a successful build wrote under a path are the bytes every later
\* successful build writes under it.
C8_PathImmutable ==
    [][\A x \in Ids : lastOk[x] # 0 => lastOk'[x] = lastOk[x]]_vars

\* C9: the builds in process are never more than the build-concurrency flag
\* allows; the queue's counter counts them.
C9_BoundedConcurrency ==
    /\ processing = Cardinality(InProcess)
    /\ Cardinality(InProcess) <= buildConcurrency

\* every worker slot is taken and a task waits in the queue
C9_Witness == Cardinality(InProcess) = buildConcurrency /\ \E t \in Slots : Pending(t)

\* the deps of the args that do not name the package
DepsKept(a, p) == {d \in Range(a.deps) : d.Name # p.Name}

OffPolicy(name) == name \in BanList \/ name \notin AllowList

\* what a request does to the working directory, the store and the queue
StoreEffects == {"install", "lstat", "open", "fsStat", "fsOpen", "dbQuery", "queueAdd"}

Answered == serve.pc = "out" /\ serve.sq.path = "module"

C13_VaryUserAgent ==
    (Answered /\ serve.rs.via \in {"wrapper", "typesOnly", "pkgCss"}
       /\ serve.rs.status \in {"200", "301"})
      => (serve.rs.vary <=> ~serve.sq.targetQuery)

\* C14: every error answer of the router (4xx or 5xx, the 408 of the timeout
\* and the module that throws included) carries the must-revalidate
\* Cache-Control; none is immutable, none is without Cache-Control.
C14_ErrorsRevalidate ==
    (serve.pc = "out" /\ serve.rs.status \in {"400", "403", "404", "408", "500"})
      => serve.rs.cache = "public, max-age=0, must-revalidate"

\* C15: every redirect of the router (version, @types main dts, CSS package,
\* ?css, old .js build path) carries Cache-Control public, max-age=600.
C15_RedirectsTenMinutes ==
    (serve.pc = "out" /\ serve.rs.status \in {"301", "302"})
      => serve.rs.cache = "public, max-age=600"

\* the build of react-dom has put a URL in the place of its import of react
ReactOfReactDom ==
    /\ build.pc = "resolved"
    /\ build.task.Pkg.Name = "react-dom"
    /\ build.name = "react"
    /\ build.task.external \cap {"react", "*"} = {}

\* C16: in every build of react-dom the import URL put in the place of react
\* names react at the version of react-dom, whatever the deps arg of the build
\* holds.
C16_ReactFollowsReactDom ==
    ReactOfReactDom
      => build.import.path = "/react@" \o build.task.Pkg.Version \o "/"
                               \o build.task.Target \o "/react.mjs"

\* the build has rewritten its import of a Node built-in
BuiltinRewritten == build.pc = "resolved" /\ build.name \in {"fs", "buffer", "inspector", "child_process"}

\* the URL the target asks for: node:X for node; node:X for denonext unless X
\* is inspector, which it does not support; the deno.land/std URL at the
\* deno-std arg for deno; for the rest the polyfill of X when there is one
\* (buffer from npm, fs embedded) and the /error.js URL when there is none
UrlByTarget ==
    LET X == build.name
        target == build.task.Target
    IN  IF target = "node" \/ (target = "denonext" /\ X # "inspector")
        THEN "node:" \o X
        ELSE IF target = "deno"
        THEN "https://deno.land/std@" \o build.task.denoStdVersion \o "/node/" \o X \o ".ts"
        ELSE IF X = "buffer"
        THEN "/buffer@6.0.3/" \o target \o "/buffer.bundle.mjs"
        ELSE IF X = "fs"
        THEN "/v135/node_fs.js"
        ELSE "/error.js?type=unsupported-nodejs-builtin-module&name=" \o X
                 \o "&importer=" \o build.task.Pkg.Name

C18_PostedModuleServed ==
    (xform.rs.status # "none" /\ xform.rs.posted)
      => (xform.rs.status = "200" /\ xform.rs.cache = ccImmutable)

\* the output file without its first line: what follows the first line feed,
\* nothing when there is none
WithoutFirstLine(content) ==
    IF \E i \in 1..Len(content) : content[i] = "\n"
    THEN LET eol == CHOOSE i \in 1..Len(content) :
                        content[i] = "\n" /\ \A j \in 1..(i - 1) : content[j] # "\n"
         IN  SubSeq(content, eol + 1, Len(content))
    ELSE <<>>

\* C19: no JavaScript artefact keeps the shebang of the bundler output: when
\* the output starts with #!, the artefact written is the comment line and
\* the output without its whole first line.
C19_ShebangRemoved ==
    (emit.pc = "written" /\ Len(emit.outputContent) >= 2
        /\ emit.outputContent[1] = "#" /\ emit.outputContent[2] = "!")
      => emit.written = BundleComment \o WithoutFirstLine(emit.outputContent)

\* the task of identity x is in the index at stage st
IdAt(x, st) == tasks[x] # 0 /\ task[tasks[x]].stage = st

\* C20: a build never waits for the build of a dependency it externalizes. With
\* one worker slot and two packages that import each other, a build that holds
\* the slot gives it back, and the dependency that is pending behind the build
\* that added it is built to completion.
C20_CycleBuilt ==
    \A x \in Ids :
        /\ IdAt(x, "build") ~> ~IdAt(x, "build")
        /\ (IdAt(x, "written") /\ IdAt(importsOf(x), "pending"))
              ~> IdAt(importsOf(x), "done")

\* x and y, which import each other, are both built with one worker slot, y
\* as the dependency nobody asked for, and the slot is free again
C20_Witness ==
    /\ buildConcurrency = 1
    /\ importsOf("x") = "y" /\ importsOf("y") = "x"
    /\ IdAt("x", "done") /\ task[tasks["x"]].output = "ok"
    /\ IdAt("y", "done") /\ task[tasks["y"]].output = "ok"
    /\ task[tasks["y"]].clients = {}
    /\ processing = 0

\* C21: a working directory is never purged while a build job that uses it is
\* running: every job between its start and its return has the directory.
C21_NoPurgeUnderJob ==
    \A j \in 1..MaxJobs : workdir.job[j] \in {"install", "build"} => workdir.dir

\* C22: the write step of a build is all-or-nothing. A first build of an
\* identity that returns an error leaves no artefact file and no metadata
\* record under the identity; a build that returns success has stored both.
C22_WriteAllOrNothing ==
    [][\A t \in Slots :
          (task[t].stage # "done" /\ task'[t].stage = "done")
            => /\ (task'[t].output = "err" /\ lastOk[task[t].id] = 0 /\ removing = {})
                    => (fsFiles'[task[t].id] = "none" /\ ~db'[task[t].id])
               /\ task'[t].output = "ok"
                    => (fsFiles'[task[t].id] # "none" /\ db'[task[t].id])]_vars

\* C24: in every reachable state, a /purge that runs along a rebuild of the
\* identity included, an identity has a metadata record only if its JS
\* artefact file is in the store.
C24_RecordImpliesFile == \A x \in Ids : db[x] => fsFiles[x] # "none"

\* C23: the rebuild loop terminates. No cause (an unresolved specifier, a
\* missing export of a browser-excluded module) is in the list of rebuilds
\* twice, the entry module is never a cause, and a step of the loop either
\* ends it or adds a cause that was not there.
C23_RebuildOncePerCause ==
    /\ [](/\ \A i, j \in 1..Len(loop.rebuilds) : loop.rebuilds[i] = loop.rebuilds[j] => i = j
          /\ \A i \in 1..Len(loop.rebuilds) : loop.rebuilds[i] # <<"resolve", "pkg">>)
    /\ [][loop.pc = "build"
            => \/ loop'.pc \in {"done", "failed"}
               \/ /\ Len(loop'.rebuilds) = Len(loop.rebuilds) + 1
                  /\ \A i \in 1..Len(loop.rebuilds) :
                        loop.rebuilds[i] # loop'.rebuilds[Len(loop'.rebuilds)]]_vars

\* an error that was the cause of a rebuild has come again and ended the job
C23_Witness ==
    /\ loop.pc = "failed"
    /\ loop.err = "esbuild"
    /\ <<"resolve", "a">> \in {loop.rebuilds[i] : i \in 1..Len(loop.rebuilds)}
    /\ <<"export", "m", "x">> \in {loop.rebuilds[i] : i \in 1..Len(loop.rebuilds)}

\* the identifier the rewritten output has in the place of an occurrence:
\* __<id>$<key> where a named export is imported, __<id>$ otherwise
CjsIdentifier(dep, key) ==
    IF CjsImportName(dep, key) \in {"*", "*?", "default", "default?"}
    THEN "__1$"
    ELSE "__1$" \o CjsImportName(dep, key)

\* C25: for an external specifier required from CJS-lowered code, the
\* statements prepended to the artefact declare each identifier the rewritten
\* occurrences use, __<id>$ above all, exactly once.
C25_OneDeclaration ==
    cjs.pc = "written"
      => \A key \in cjs.occs :
            Cardinality({i \in 1..Len(cjs.statements) :
                            cjs.statements[i][2] = CjsIdentifier(cjs.dep, key)}) = 1

\* C26: the deps list made from the ?deps query has at most one entry for a
\* package name.
C26_DepsOnePerName ==
    build.pc # "idle"
      => \A i, j \in 1..Len(build.task.deps) :
            build.task.deps[i].Name = build.task.deps[j].Name => i = j

\* the external arg covers the import: it lists the specifier, or the package
\* the specifier is a sub-path of, or it is `*`
CoveredByExternal ==
    \/ plugin.specifier \in plugin.task.external
    \/ PkgNameOf(plugin.specifier) \in plugin.task.external
    \/ "*" \in plugin.task.external

\* C27: in bundle mode the resolve plugin inlines an import only if its package
\* is not a peer dependency and the external arg does not cover the import.
C27_ExternalNeverInlined ==
    (plugin.pc = "resolved" /\ plugin.result = "inline")
      => /\ PkgNameOf(plugin.specifier) \notin plugin.task.PeerDependencies
         /\ ~CoveredByExternal

\* the replacements in the content of the artefact, in order
Replacements == SelectSeq(ext.outputContent, LAMBDA r : r.t \in {"path", "ident"})

\* the identifier of a specifier: the length of externalDeps less its index
IdentifierOf(name) ==
    LET i == CHOOSE j \in 1..Len(ext.externalDeps) : ext.externalDeps[j] = name
    IN  Len(ext.externalDeps) - (i - 1)

\* C28: every specifier of a marker is in externalDeps, and in the JS artefact
\* of a successful build no marker remains: the k-th marker has become the
\* import path or the identifier of the k-th specifier, also when one specifier
\* is a prefix of another.
C28_MarkersReplaced ==
    /\ \A k \in 1..Len(ext.markers) :
         \E j \in 1..Len(ext.externalDeps) : ext.externalDeps[j] = ext.markers[k]
    /\ ext.pc = "done" =>
         /\ \A k \in 1..Len(ext.outputContent) :
              ext.outputContent[k].t # "\"__ESM_SH_EXTERNAL:"
         /\ Len(Replacements) = Len(ext.markers)
         /\ \A k \in 1..Len(ext.markers) :
              \/ Replacements[k].t = "path" /\ Replacements[k].v = ext.markers[k]
              \/ Replacements[k].t = "ident" /\ Replacements[k].n = IdentifierOf(ext.markers[k])

C28_Witness ==
    /\ ext.pc = "done"
    /\ \E i, k \in 1..Len(ext.markers) :
         /\ i < k
         /\ ext.markers[i] = <<"react", "-dom">>
         /\ ext.markers[k] = <<"react">>
         /\ Replacements[k].t = "ident"

\* C29: the /status.json handler never indexes past its slice, and the length
\* it sized the result with is the length of the queue it lists.
C29_StatusAtOneInstant ==
    /\ statusJson.pc # "panic"
    /\ statusJson.pc = "listed" => statusJson.size = Len(statusJson.q)

\* C30: a request with a valid X-Zone-Id header gets its response only after
\* path validation and, when the path is valid, after the allow/ban check;
\* scoped packages are no exception.
C30_ZoneIdKeepsChecks ==
    (zone.pc = "answered" /\ IsDomain(zone.header))
      => /\ "validatePkgPath" \in zone.reached
         /\ zone.validPath => "allow/ban" \in zone.reached

====
